---------------------------- MODULE Spec2Model ----------------------------
(***************************************************************************)
(* A model of the huobi-chain services: the asset ledger, the transfer     *)
(* quota engine, the KYC service, the timestamp service and the RISC-V     *)
(* contract service with its chain bridge.                                 *)
(*                                                                         *)
(* Every service handler is an operator  Handler(store, ctx, payload)      *)
(* that returns [store, ctx, resp]: the store after the handler, the       *)
(* context after the handler (the cycle meter is shared by every clone of  *)
(* a context) and the ServiceResponse.  An action applies one handler.     *)
(***************************************************************************)
EXTENDS Integers, Sequences, FiniteSets, TLC

VARIABLES
    asset_store,   \* AssetService: [assets, balances]
    quota_store,   \* TransferQuotaService: [asset_config, account_record]
    kyc_store,     \* KycService: [service_admin, orgs, user_tag_names, user_tags]
    ts_store,      \* TimestampService: [time, has_info, oracle, admin]
    riscv_store,   \* RiscvService: [code, contracts, storage, grants, admins]
    last           \* the last request: [op, payload, ctx, pre, resp, out_ctx]

vars == <<asset_store, quota_store, kyc_store, ts_store, riscv_store, last>>

(***************************************************************************)
(* u64 arithmetic.  U64Max stands for u64::MAX; the width is kept so that  *)
(* overflowing_add / overflowing_sub wrap as in the code.                  *)
(***************************************************************************)
U64Max == 3

U64 == 0..U64Max

overflowing_add(a, b) ==
    [value |-> (a + b) % (U64Max + 1), overflow |-> a + b > U64Max]

overflowing_sub(a, b) ==
    [value |-> (a - b + U64Max + 1) % (U64Max + 1), overflow |-> a < b]

(***************************************************************************)
(* Addresses and hashes.  Address::default() is the zero address.          *)
(***************************************************************************)
ZeroAddr == 0

Addrs == {1, 2, 3}

DefaultHash == 0

(***************************************************************************)
(* ServiceContext.  cycles_used is shared by all clones of a context;      *)
(* sub_cycles charges n cycles unless that would pass cycles_limit.        *)
(***************************************************************************)
sub_cycles_ok(ctx, n) == ctx.cycles_used + n <= ctx.cycles_limit

sub_cycles(ctx, n) ==
    IF sub_cycles_ok(ctx, n)
    THEN [ctx EXCEPT !.cycles_used = ctx.cycles_used + n]
    ELSE ctx

NoExtra == "<none>"

Ctx(caller, limit, extra) ==
    [caller |-> caller, cycles_limit |-> limit, cycles_used |-> 0, extra |-> extra,
     events |-> <<>>]

\* ServiceContext::emit_event: the event is appended to the context's list
emit_event(ctx, service, name) ==
    [ctx EXCEPT !.events = Append(ctx.events, [service |-> service, name |-> name])]

Ret(store, ctx, code) == [store |-> store, ctx |-> ctx, resp |-> code]

Ok == "Ok"

(***************************************************************************)
(* Asset service: types.rs                                                 *)
(***************************************************************************)
AssetBalanceDefault == [value |-> 0, allowance |-> <<>>]

AssetBalanceNew(supply) == [value |-> supply, allowance |-> <<>>]

\* AssetBalance::checked_add: [err, bal]
checked_add(bal, amount) ==
    LET r == overflowing_add(bal.value, amount)
    IN  IF r.overflow
        THEN [err |-> "BalanceOverflow", bal |-> bal]
        ELSE [err |-> Ok, bal |-> [bal EXCEPT !.value = r.value]]

checked_sub(bal, amount) ==
    LET r == overflowing_sub(bal.value, amount)
    IN  IF r.overflow
        THEN [err |-> "BalanceOverflow", bal |-> bal]
        ELSE [err |-> Ok, bal |-> [bal EXCEPT !.value = r.value]]

allowance(bal, spender) ==
    IF spender \in DOMAIN bal.allowance THEN bal.allowance[spender] ELSE 0

update_allowance_drops_zero(bal, spender, value) ==
    [bal EXCEPT !.allowance =
        [s \in IF value = 0 THEN (DOMAIN bal.allowance) \ {spender}
               ELSE (DOMAIN bal.allowance) \cup {spender} |->
            IF s = spender THEN value ELSE bal.allowance[s]]]

update_allowance_adds(bal, spender, value) ==
    [bal EXCEPT !.allowance =
        [s \in (DOMAIN bal.allowance) \cup {spender} |->
            IF s = spender THEN (allowance(bal, spender) + value) % (U64Max + 1)
            ELSE bal.allowance[s]]]

\* AssetBalance::update_allowance
update_allowance(bal, spender, value) ==
    [bal EXCEPT !.allowance =
        [s \in (DOMAIN bal.allowance) \cup {spender} |->
            IF s = spender THEN value ELSE bal.allowance[s]]]

\* ServiceError::LackOfBalance { expect, real } with its message
LackOfBalance(expect, real) ==
    "LackOfBalance{expect: " \o ToString(expect) \o ", real: " \o ToString(real) \o "}"

\* IssuerWithBalance::verify
issuer_verify(issuer) ==
    IF issuer.balance = 0 THEN "MeaningLessValue"
    ELSE IF issuer.addr = ZeroAddr THEN "MeaningLessValue"
    ELSE Ok

\* verify_issuers: [err, sum], folding the issuers from index i with accu
RECURSIVE verify_issuers_from(_, _, _)
verify_issuers_from(issuers, i, accu) ==
    IF i > Len(issuers) THEN [err |-> Ok, sum |-> accu]
    ELSE IF issuer_verify(issuers[i]) # Ok
         THEN [err |-> issuer_verify(issuers[i]), sum |-> accu]
    ELSE LET r == overflowing_add(accu, issuers[i].balance)
         IN  IF r.overflow THEN [err |-> "BalanceOverflow", sum |-> accu]
             ELSE verify_issuers_from(issuers, i + 1, r.value)

verify_issuers(issuers) == verify_issuers_from(issuers, 1, 0)

CreateAssetPayload_verify_unsummed(payload) ==
    IF payload.supply = 0 THEN "MeaningLessValue"
    ELSE IF \E i \in 1..Len(payload.init_mints) : issuer_verify(payload.init_mints[i]) # Ok
    THEN "MeaningLessValue"
    ELSE Ok

\* CreateAssetPayload::verify (name and symbol are well formed in the model)
CreateAssetPayload_verify(payload) ==
    IF payload.supply = 0 THEN "MeaningLessValue"
    ELSE LET m == verify_issuers(payload.init_mints)
         IN  IF m.err # Ok THEN m.err
             ELSE IF m.sum # payload.supply THEN "MintNotEqualSupply"
             ELSE Ok

TransferPayload_verify(payload) ==
    IF payload.asset_id = DefaultHash THEN "MeaningLessValue"
    ELSE IF payload.to = ZeroAddr THEN "MeaningLessValue"
    ELSE IF payload.value = 0 THEN "MeaningLessValue"
    ELSE Ok

TransferFromPayload_verify(payload) ==
    IF payload.asset_id = DefaultHash THEN "MeaningLessValue"
    ELSE IF payload.sender = ZeroAddr THEN "MeaningLessValue"
    ELSE IF payload.recipient = ZeroAddr THEN "MeaningLessValue"
    ELSE IF payload.value = 0 THEN "MeaningLessValue"
    ELSE Ok

MintAssetPayload_verify(payload) ==
    IF payload.asset_id = DefaultHash THEN "MeaningLessValue"
    ELSE IF payload.to = ZeroAddr THEN "MeaningLessValue"
    ELSE IF payload.amount = 0 THEN "MeaningLessValue"
    ELSE Ok

BurnAssetPayload_verify(payload) ==
    IF payload.asset_id = DefaultHash THEN "MeaningLessValue"
    ELSE IF payload.amount = 0 THEN "MeaningLessValue"
    ELSE Ok

ChangeAdminPayload_verify(payload) ==
    IF payload.asset_id = DefaultHash THEN "MeaningLessValue"
    ELSE IF payload.new_admin = ZeroAddr THEN "MeaningLessValue"
    ELSE Ok


(***************************************************************************)
(* KYC service: kyc/src/lib.rs.  The store is                              *)
(*   [service_admin, orgs, user_tag_names, user_tags]                      *)
(* orgs: OrgName -> KycOrgInfo, user_tag_names: <<org, user>> -> list of   *)
(* tag names, user_tags: <<org, user, tag>> -> list of tag values.         *)
(***************************************************************************)
\* #[cycles(n)]: the handler body runs only when the context affords n
cycles_attr_ok(ctx, n) == sub_cycles_ok(ctx, n)

AddressBytesLen == 20

SetToSeqs(S) ==
    {q \in [1..Cardinality(S) -> S] : \A i, j \in 1..Cardinality(S) : i # j => q[i] # q[j]}

SeqRange(q) == {q[i] : i \in 1..Len(q)}

MapRemove(f, k) == [x \in (DOMAIN f) \ {k} |-> f[x]]

MapInsert(f, k, v) == [x \in (DOMAIN f) \cup {k} |-> IF x = k THEN v ELSE f[x]]

\* KycService::register_org
register_org(K, ctx0, new_org) ==
    IF ~cycles_attr_ok(ctx0, 21000) THEN Ret(K, ctx0, "OutOfCycles")
    ELSE LET ctx == sub_cycles(ctx0, 21000) IN
    IF K.service_admin # ctx.caller THEN Ret(K, ctx, "NonAuthorized")
    ELSE IF new_org.name \in DOMAIN K.orgs THEN Ret(K, ctx, "OrgAlreadyExists")
    ELSE LET string_bytes == Len(new_org.name) + Len(new_org.description) + AddressBytesLen
             tags == Len(new_org.supported_tags)
             required_cycles == string_bytes * 1000 + tags * 10000
         IN  IF ~sub_cycles_ok(ctx, required_cycles) THEN Ret(K, ctx, "OutOfCycles")
             ELSE Ret([K EXCEPT !.orgs = MapInsert(K.orgs, new_org.name,
                          [admin |-> new_org.admin,
                           supported_tags |-> new_org.supported_tags,
                           approved |-> FALSE])],
                      emit_event(sub_cycles(ctx, required_cycles), "kyc", "RegisterOrg"), Ok)

\* KycService::change_org_approved
change_org_approved(K, ctx0, payload) ==
    IF ~cycles_attr_ok(ctx0, 21000) THEN Ret(K, ctx0, "OutOfCycles")
    ELSE LET ctx == sub_cycles(ctx0, 21000) IN
    IF K.service_admin # ctx.caller THEN Ret(K, ctx, "NonAuthorized")
    ELSE IF payload.org_name \notin DOMAIN K.orgs THEN Ret(K, ctx, "OrgNotFound")
    ELSE Ret([K EXCEPT !.orgs[payload.org_name].approved = payload.approved],
             emit_event(ctx, "kyc", "ChangeOrgApproved"), Ok)

\* update_user_tags, lines 566-578: the loop over payload.tags in the HashMap's
\* iteration order, from position i
RECURSIVE update_user_tags_loop(_, _, _, _, _)
update_user_tags_loop(K, ctx, payload, order, i) ==
    IF i > Len(order) THEN Ret(K, ctx, Ok)
    ELSE LET tag_name == order[i]
             tags == payload.tags[tag_name]
             required_cycles == Len(tags) * 10000
         IN  IF ~sub_cycles_ok(ctx, required_cycles) THEN Ret(K, ctx, "OutOfCycles")
             ELSE update_user_tags_loop(
                      [K EXCEPT !.user_tags =
                          MapInsert(K.user_tags, <<payload.org_name, payload.user, tag_name>>, tags)],
                      sub_cycles(ctx, required_cycles), payload, order, i + 1)

\* update_user_tags, lines 580-585: clear the tags whose names were dropped
clear_unused_tags(K, payload, unused) ==
    [K EXCEPT !.user_tags =
        [k \in {x \in DOMAIN K.user_tags :
                    ~(x[1] = payload.org_name /\ x[2] = payload.user /\ x[3] \in unused)}
            |-> K.user_tags[k]]]

\* KycService::update_user_tags; order is the iteration order of the
\* payload's HashMap of tags
update_user_tags(K, ctx0, payload, order) ==
    IF ~cycles_attr_ok(ctx0, 21000) THEN Ret(K, ctx0, "OutOfCycles")
    ELSE LET ctx == sub_cycles(ctx0, 21000) IN
    IF payload.org_name \notin DOMAIN K.orgs THEN Ret(K, ctx, "OrgNotFound")
    ELSE LET org == K.orgs[payload.org_name] IN
    IF ~org.approved THEN Ret(K, ctx, "UnapprovedOrg")
    ELSE IF org.admin # ctx.caller THEN Ret(K, ctx, "NonAuthorized")
    ELSE IF \E t \in DOMAIN payload.tags : t \notin SeqRange(org.supported_tags)
         THEN Ret(K, ctx, "OutOfSupportedTags")
    ELSE LET tag_names == order
             names_cycles == Len(tag_names) * 10000
         IN
    IF Len(tag_names) > 0 /\ ~sub_cycles_ok(ctx, names_cycles) THEN Ret(K, ctx, "OutOfCycles")
    ELSE LET ctx1 == IF Len(tag_names) > 0 THEN sub_cycles(ctx, names_cycles) ELSE ctx
             tag_names_key == <<payload.org_name, payload.user>>
             old_tag_names ==
                 IF tag_names_key \in DOMAIN K.user_tag_names
                 THEN SeqRange(K.user_tag_names[tag_names_key]) ELSE {}
             K1 == [K EXCEPT !.user_tag_names =
                       MapInsert(K.user_tag_names, tag_names_key, tag_names)]
             r == update_user_tags_loop(K1, ctx1, payload, order, 1)
         IN  IF r.resp # Ok THEN r
             ELSE Ret(clear_unused_tags(r.store, payload, old_tag_names \ DOMAIN payload.tags),
                      emit_event(r.ctx, "kyc", "UpdateUserTag"), Ok)

\* ExpressionDataFeed::get_tags: [err, tags]; an unknown organisation makes
\* orgs.get(..).unwrap() panic
get_tags(K, user, kyc, tag) ==
    IF kyc \notin DOMAIN K.orgs THEN [err |-> "Panic", tags |-> <<>>]
    ELSE IF ~K.orgs[kyc].approved THEN [err |-> "unapproved org", tags |-> <<>>]
    ELSE IF <<kyc, user, tag>> \in DOMAIN K.user_tags
         THEN [err |-> Ok, tags |-> K.user_tags[<<kyc, user, tag>>]]
         ELSE [err |-> Ok, tags |-> <<"NULL">>]

\* expression::evaluate on the parsed expression  [!] org.tag@`value`
evaluate(K, user, expression) ==
    LET t == get_tags(K, user, expression.org, expression.tag)
    IN  IF t.err # Ok THEN [err |-> t.err, value |-> FALSE]
        ELSE [err |-> Ok,
              value |-> IF expression.neg
                        THEN expression.value \notin SeqRange(t.tags)
                        ELSE expression.value \in SeqRange(t.tags)]

\* KycService::eval_user_tag_expression: [ctx, err, value]
eval_user_tag_expression(K, ctx0, payload) ==
    IF ~cycles_attr_ok(ctx0, 21000)
    THEN [ctx |-> ctx0, err |-> "OutOfCycles", value |-> FALSE]
    ELSE LET ctx == sub_cycles(ctx0, 21000)
             required_cycles == Len(payload.expression.text) * 10000
         IN  IF ~sub_cycles_ok(ctx, required_cycles)
             THEN [ctx |-> ctx, err |-> "OutOfCycles", value |-> FALSE]
             ELSE LET e == evaluate(K, payload.user, payload.expression)
                  IN  [ctx |-> sub_cycles(ctx, required_cycles),
                       err |-> IF e.err \in {Ok, "Panic"} THEN e.err ELSE "Expression",
                       value |-> e.value]

(***************************************************************************)
(* Timestamp service: timestamp/src/lib.rs.  A u64 millisecond timestamp   *)
(* is kept as [days, ms]: the quotient and the remainder of the value by   *)
(* the 86,400,000 milliseconds of a day.                                   *)
(***************************************************************************)
TimeZero == [days |-> 0, ms |-> 0]

TimeGT(a, b) == a.days > b.days \/ (a.days = b.days /\ a.ms > b.ms)

\* TimestampService::set_time
set_time(T, time) == IF TimeGT(time, T.time) THEN [T EXCEPT !.time = time] ELSE T

set_timestamp_hook_any_mode(T, timestamp) ==
    IF T.has_info THEN set_time(T, timestamp) ELSE T

\* TimestampService::set_timestamp_hook
set_timestamp_hook(T, timestamp) ==
    IF T.has_info /\ ~T.oracle THEN set_time(T, timestamp) ELSE T

\* TimestampService::is_admin
timestamp_is_admin(T, ctx) == T.has_info /\ T.admin = ctx.caller

\* TimestampService::get_info: [ctx, err, value]
get_info(T, ctx0) ==
    IF ~cycles_attr_ok(ctx0, 2000)
    THEN [ctx |-> ctx0, err |-> "OutOfCycles", value |-> [admin |-> ZeroAddr, oracle |-> FALSE]]
    ELSE IF ~T.has_info
    THEN [ctx |-> sub_cycles(ctx0, 2000), err |-> "MissingInfo",
          value |-> [admin |-> ZeroAddr, oracle |-> FALSE]]
    ELSE [ctx |-> sub_cycles(ctx0, 2000), err |-> Ok,
          value |-> [admin |-> T.admin, oracle |-> T.oracle]]

\* TimestampService::feed_time once get_info has answered info
feed_time_with(T, info, payload) ==
    IF info.err # Ok THEN Ret(T, info.ctx, info.err)
    ELSE IF ~info.value.oracle THEN Ret(T, info.ctx, "NotOracleMode")
    ELSE Ret(set_time(T, payload.timestamp), info.ctx, Ok)

feed_time_unchecked(T, ctx0, payload) ==
    IF ~cycles_attr_ok(ctx0, 2000) THEN Ret(T, ctx0, "OutOfCycles")
    ELSE IF ~timestamp_is_admin(T, sub_cycles(ctx0, 2000))
    THEN Ret(T, sub_cycles(ctx0, 2000), "NotAuthorized")
    ELSE Ret([T EXCEPT !.time = payload.timestamp], sub_cycles(ctx0, 2000), Ok)

\* TimestampService::feed_time
feed_time(T, ctx0, payload) ==
    IF ~cycles_attr_ok(ctx0, 2000) THEN Ret(T, ctx0, "OutOfCycles")
    ELSE IF ~timestamp_is_admin(T, sub_cycles(ctx0, 2000))
    THEN Ret(T, sub_cycles(ctx0, 2000), "NotAuthorized")
    ELSE feed_time_with(T, get_info(T, sub_cycles(ctx0, 2000)), payload)

\* TimestampService::set_oracle
set_oracle(T, ctx0, payload) ==
    IF ~cycles_attr_ok(ctx0, 2000) THEN Ret(T, ctx0, "OutOfCycles")
    ELSE IF ~timestamp_is_admin(T, sub_cycles(ctx0, 2000))
    THEN Ret(T, sub_cycles(ctx0, 2000), "NotAuthorized")
    ELSE IF ~T.has_info THEN Ret(T, sub_cycles(ctx0, 2000), "MissingInfo")
    ELSE Ret([T EXCEPT !.oracle = payload.oracle],
             emit_event(sub_cycles(ctx0, 2000), "timestamp", "SetOracle"), Ok)

\* TimestampService::now: [ctx, err, value]
now(T, ctx0) ==
    IF ~cycles_attr_ok(ctx0, 2000) THEN [ctx |-> ctx0, err |-> "OutOfCycles", value |-> TimeZero]
    ELSE [ctx |-> sub_cycles(ctx0, 2000), err |-> Ok, value |-> T.time]

(***************************************************************************)
(* Utc.timestamp_millis(t) and Datelike::{year, month, day}: the proleptic *)
(* Gregorian date of day number t.days counted from 1970-01-01.            *)
(***************************************************************************)
civil(time) ==
    LET z    == time.days + 719468
        era  == z \div 146097
        doe  == z % 146097
        yoe  == (doe - (doe \div 1460) + (doe \div 36524) - (doe \div 146096)) \div 365
        doy  == doe - (365 * yoe + (yoe \div 4) - (yoe \div 100))
        mp   == (5 * doy + 2) \div 153
    IN  [year  |-> yoe + era * 400 + (IF mp < 10 THEN 0 ELSE 1),
         month |-> IF mp < 10 THEN mp + 3 ELSE mp - 9,
         day   |-> doy - ((153 * mp + 2) \div 5) + 1]

year(time) == civil(time).year

month(time) == civil(time).month

day(time) == civil(time).day

(***************************************************************************)
(* Transfer quota service: transfer_quota/src/lib.rs.  The store is        *)
(*   [asset_config, account_record]                                        *)
(* asset_config: asset id -> AssetConfig, account_record: <<asset id,      *)
(* address>> -> Record.                                                    *)
(***************************************************************************)
TRANSFER_QUOTA_TOKEN == "asset_service"

RecordDefault ==
    [last_op_time |-> TimeZero, daily_used_amount |-> 0,
     monthly_used_amount |-> 0, yearly_used_amount |-> 0]

QuotaTypes == <<"SingleBill", "Daily", "Monthly", "Yearly">>

QuotaExceed(quota_type) ==
    CASE quota_type = "SingleBill" -> "QuotaExceed(SingleBill)"
      [] quota_type = "Daily"      -> "QuotaExceed(Daily)"
      [] quota_type = "Monthly"    -> "QuotaExceed(Monthly)"
      [] quota_type = "Yearly"     -> "QuotaExceed(Yearly)"

QuotaCalcOverflow(quota_type) ==
    CASE quota_type = "SingleBill" -> "QuotaCalcOverflow(SingleBill)"
      [] quota_type = "Daily"      -> "QuotaCalcOverflow(Daily)"
      [] quota_type = "Monthly"    -> "QuotaCalcOverflow(Monthly)"
      [] quota_type = "Yearly"     -> "QuotaCalcOverflow(Yearly)"

QuotaNoRuleHit(quota_type) ==
    CASE quota_type = "SingleBill" -> "QuotaNoRuleHit(SingleBill)"
      [] quota_type = "Daily"      -> "QuotaNoRuleHit(Daily)"
      [] quota_type = "Monthly"    -> "QuotaNoRuleHit(Monthly)"
      [] quota_type = "Yearly"     -> "QuotaNoRuleHit(Yearly)"

rules_of_swapped(config, quota_type) ==
    CASE quota_type = "SingleBill" -> config.single_bill_quota
      [] quota_type = "Yearly"     -> config.monthly_quota_rule
      [] quota_type = "Monthly"    -> config.yearly_quota_rule
      [] quota_type = "Daily"      -> config.daily_quota_rule

\* check_quota, lines 340-348
rules_of(config, quota_type) ==
    CASE quota_type = "SingleBill" -> config.single_bill_quota
      [] quota_type = "Yearly"     -> config.yearly_quota_rule
      [] quota_type = "Monthly"    -> config.monthly_quota_rule
      [] quota_type = "Daily"      -> config.daily_quota_rule

used_in_window_day_only(record, quota_type, last_date, now_date) ==
    CASE quota_type = "SingleBill" -> 0
      [] quota_type = "Yearly" ->
            IF last_date.year = now_date.year THEN record.yearly_used_amount ELSE 0
      [] quota_type = "Monthly" ->
            IF last_date.month = now_date.month THEN record.monthly_used_amount ELSE 0
      [] quota_type = "Daily" ->
            IF last_date.day = now_date.day THEN record.daily_used_amount ELSE 0

\* check_quota, lines 365-395: the counter the bucket starts from, given the
\* UTC dates of record.last_op_time and of now
used_in_window(record, quota_type, last_date, now_date) ==
    CASE quota_type = "SingleBill" -> 0
      [] quota_type = "Yearly" ->
            IF last_date.year = now_date.year THEN record.yearly_used_amount ELSE 0
      [] quota_type = "Monthly" ->
            IF last_date.year = now_date.year /\ last_date.month = now_date.month
            THEN record.monthly_used_amount ELSE 0
      [] quota_type = "Daily" ->
            IF  /\ last_date.year = now_date.year
                /\ last_date.month = now_date.month
                /\ last_date.day = now_date.day
            THEN record.daily_used_amount ELSE 0

\* check_quota, lines 362-395
used_of(record, quota_type, now_time) ==
    used_in_window(record, quota_type, civil(record.last_op_time), civil(now_time))

store_used_amount(record, quota_type, added_amount) ==
    CASE quota_type = "SingleBill" -> record
      [] quota_type = "Yearly"  -> [record EXCEPT !.yearly_used_amount = added_amount]
      [] quota_type = "Monthly" -> [record EXCEPT !.monthly_used_amount = added_amount]
      [] quota_type = "Daily"   -> [record EXCEPT !.daily_used_amount = record.daily_used_amount]

\* check_quota, lines 410-421
store_used(record, quota_type, added_amount) ==
    CASE quota_type = "SingleBill" -> record
      [] quota_type = "Yearly"  -> [record EXCEPT !.yearly_used_amount = added_amount]
      [] quota_type = "Monthly" -> [record EXCEPT !.monthly_used_amount = added_amount]
      [] quota_type = "Daily"   -> [record EXCEPT !.daily_used_amount = added_amount]

\* TransferQuotaService::check_quota, the loop over the rules from index i:
\* [ctx, err, record]
RECURSIVE check_quota_from(_, _, _, _, _, _, _, _, _)
RECURSIVE check_rule(_, _, _, _, _, _, _, _, _, _)
\* check_quota, lines 352-425: rule i, given the result kyc_res of its KYC
\* evaluation and the sum added of the used amount and the amount
check_rule(K, kyc_res, added, address, amount, record, rules, quota_type, now_time, i) ==
    IF kyc_res.err = "Panic"
    THEN [ctx |-> kyc_res.ctx, err |-> "Panic", record |-> record]
    ELSE IF kyc_res.err # Ok
    THEN check_quota_from(K, kyc_res.ctx, address, amount, record, rules,
                          quota_type, now_time, i + 1)
    ELSE IF ~kyc_res.value
    THEN check_quota_from(K, kyc_res.ctx, address, amount, record, rules,
                          quota_type, now_time, i + 1)
    ELSE IF added.overflow
    THEN [ctx |-> kyc_res.ctx, err |-> QuotaCalcOverflow(quota_type), record |-> record]
    ELSE IF added.value > rules[i].quota
    THEN [ctx |-> kyc_res.ctx, err |-> QuotaExceed(quota_type), record |-> record]
    ELSE [ctx |-> kyc_res.ctx, err |-> Ok,
          record |-> store_used(record, quota_type, added.value)]

check_quota_from(K, ctx, address, amount, record, rules, quota_type, now_time, i) ==
    IF i > Len(rules)
    THEN [ctx |-> ctx, err |-> QuotaNoRuleHit(quota_type), record |-> record]
    ELSE check_rule(K,
             eval_user_tag_expression(K, ctx,
                 [user |-> address, expression |-> rules[i].kyc_expr]),
             overflowing_add(used_of(record, quota_type, now_time), amount),
             address, amount, record, rules, quota_type, now_time, i)

check_quota_backwards(K, ctx, address, amount, record, config, quota_type, now_time) ==
    check_quota_from(K, ctx, address, amount, record,
                     [i \in 1..Len(rules_of(config, quota_type)) |->
                         rules_of(config, quota_type)[Len(rules_of(config, quota_type)) + 1 - i]],
                     quota_type, now_time, 1)

\* TransferQuotaService::check_quota
check_quota(K, ctx, address, amount, record, config, quota_type, now_time) ==
    check_quota_from(K, ctx, address, amount, record, rules_of(config, quota_type),
                     quota_type, now_time, 1)

\* quota_transfer, lines 263-309: the four checks in order, from bucket b; r
\* is the result [ctx, err, record] of the checks before b
RECURSIVE check_buckets_from(_, _, _, _, _, _, _)
check_buckets_from(K, r, address, amount, config, now_time, b) ==
    IF r.err # Ok \/ b > Len(QuotaTypes) THEN r
    ELSE check_buckets_from(K,
             check_quota(K, r.ctx, address, amount, r.record, config, QuotaTypes[b],
                         now_time),
             address, amount, config, now_time, b + 1)

store_record_checked_so_far(Q, key, now_time, r) ==
    Ret([Q EXCEPT !.account_record =
            MapInsert(Q.account_record, key, [r.record EXCEPT !.last_op_time = now_time])],
        r.ctx, r.err)

\* quota_transfer, lines 311-321: the record is stored when every check passed
store_record(Q, key, now_time, r) ==
    IF r.err # Ok THEN Ret(Q, r.ctx, r.err)
    ELSE Ret([Q EXCEPT !.account_record =
                 MapInsert(Q.account_record, key,
                           [r.record EXCEPT !.last_op_time = now_time])],
             r.ctx, Ok)

\* quota_transfer, lines 250-309: after the time was read
quota_transfer_at(Q, K, n, config, key, payload) ==
    IF n.err # Ok THEN Ret(Q, n.ctx, n.err)
    ELSE store_record(Q, key, n.value,
             check_buckets_from(K,
                 [ctx |-> n.ctx, err |-> Ok,
                  record |-> IF key \in DOMAIN Q.account_record
                             THEN Q.account_record[key] ELSE RecordDefault],
                 payload.address, payload.amount, config, n.value, 1))

quota_transfer_always_enforced(Q, K, T, ctx0, payload) ==
    IF ~cycles_attr_ok(ctx0, 2000) THEN Ret(Q, ctx0, "OutOfCycles")
    ELSE IF payload.asset_id \notin DOMAIN Q.asset_config
    THEN Ret(Q, sub_cycles(ctx0, 2000), "AssetNotFound")
    ELSE quota_transfer_at(Q, K, now(T, sub_cycles(ctx0, 2000)),
                           Q.asset_config[payload.asset_id],
                           <<payload.asset_id, payload.address>>, payload)

\* TransferQuotaService::quota_transfer
quota_transfer(Q, K, T, ctx0, payload) ==
    IF ~cycles_attr_ok(ctx0, 2000) THEN Ret(Q, ctx0, "OutOfCycles")
    ELSE IF payload.asset_id \notin DOMAIN Q.asset_config
    THEN Ret(Q, sub_cycles(ctx0, 2000), "AssetNotFound")
    ELSE IF ~Q.asset_config[payload.asset_id].activated
    THEN Ret(Q, sub_cycles(ctx0, 2000), Ok)
    ELSE quota_transfer_at(Q, K, now(T, sub_cycles(ctx0, 2000)),
                           Q.asset_config[payload.asset_id],
                           <<payload.asset_id, payload.address>>, payload)

\* TransferQuotaService::is_asset_admin
is_asset_admin(Q, address, asset_id) ==
    asset_id \in DOMAIN Q.asset_config /\ Q.asset_config[asset_id].admin = address

create_asset_config_overwrites(Q, ctx, payload) ==
    IF ctx.extra # TRANSFER_QUOTA_TOKEN THEN Ret(Q, ctx, "NotAuthorized")
    ELSE Ret([Q EXCEPT !.asset_config =
                 MapInsert(Q.asset_config, payload.asset_id,
                     [admin |-> payload.admin, activated |-> FALSE,
                      single_bill_quota |-> <<>>, daily_quota_rule |-> <<>>,
                      monthly_quota_rule |-> <<>>, yearly_quota_rule |-> <<>>])],
             ctx, Ok)

\* TransferQuotaService::create_asset_config
create_asset_config(Q, ctx, payload) ==
    IF ctx.extra # TRANSFER_QUOTA_TOKEN THEN Ret(Q, ctx, "NotAuthorized")
    ELSE IF payload.asset_id \in DOMAIN Q.asset_config THEN Ret(Q, ctx, "AssetConfigExist")
    ELSE Ret([Q EXCEPT !.asset_config =
                 MapInsert(Q.asset_config, payload.asset_id,
                     [admin |-> payload.admin, activated |-> FALSE,
                      single_bill_quota |-> <<>>, daily_quota_rule |-> <<>>,
                      monthly_quota_rule |-> <<>>, yearly_quota_rule |-> <<>>])],
             ctx, Ok)

\* TransferQuotaService::change_asset_config
change_asset_config(Q, ctx0, payload) ==
    IF ~cycles_attr_ok(ctx0, 2000) THEN Ret(Q, ctx0, "OutOfCycles")
    ELSE LET ctx == sub_cycles(ctx0, 2000) IN
    IF ~is_asset_admin(Q, ctx.caller, payload.asset_id) THEN Ret(Q, ctx, "NotAuthorized")
    ELSE Ret([Q EXCEPT !.asset_config =
                 MapInsert(Q.asset_config, payload.asset_id, payload.asset_config)],
             ctx, Ok)

\* TransferQuotaService::change_record
change_record(Q, ctx0, payload) ==
    IF ~cycles_attr_ok(ctx0, 2000) THEN Ret(Q, ctx0, "OutOfCycles")
    ELSE LET ctx == sub_cycles(ctx0, 2000) IN
    IF ~is_asset_admin(Q, ctx.caller, payload.asset_id) THEN Ret(Q, ctx, "NotAuthorized")
    ELSE Ret([Q EXCEPT !.account_record =
                 MapInsert(Q.account_record, <<payload.asset_id, payload.address>>,
                           payload.record)],
             emit_event(ctx, "transfer_quota", "ChangeRecord"), Ok)

(***************************************************************************)
(* Asset service: asset/src/lib.rs.  The store is                          *)
(*   [assets, balances, native_asset, transfer_quota_service]              *)
(* assets: asset id -> Asset, balances: <<address, asset id>> ->           *)
(* AssetBalance; native_asset is <<>> or <<id>>, the value under           *)
(* NATIVE_ASSET_KEY; transfer_quota_service tells whether the service was  *)
(* built with a transfer quota service.                                    *)
(***************************************************************************)
\* Address::from_hex on the extra bytes of a context: [ok, addr]
from_hex(extra) ==
    CASE extra = "0x01" -> [ok |-> TRUE, addr |-> 1]
      [] extra = "0x02" -> [ok |-> TRUE, addr |-> 2]
      [] extra = "0x03" -> [ok |-> TRUE, addr |-> 3]
      [] OTHER -> [ok |-> FALSE, addr |-> ZeroAddr]

\* AssetService::extra_caller: [err, addr]
extra_caller(ctx) ==
    IF ctx.extra = NoExtra THEN [err |-> Ok, addr |-> ctx.caller]
    ELSE IF from_hex(ctx.extra).ok THEN [err |-> Ok, addr |-> from_hex(ctx.extra).addr]
    ELSE [err |-> "NotHexCaller", addr |-> ZeroAddr]

\* Hash::digest(payload_json + caller): an injective numbering of the
\* payloads and callers, never the default hash
RECURSIVE digest_mints(_, _)
digest_mints(init_mints, i) ==
    IF i > Len(init_mints) THEN 1
    ELSE init_mints[i].addr + 4 * (init_mints[i].balance + (U64Max + 1)
             * digest_mints(init_mints, i + 1))

digest(payload, caller) ==
    1 + caller + 4 * (payload.admin + 4 * (payload.supply + (U64Max + 1)
            * digest_mints(payload.init_mints, 1)))

\* AssetService::asset_balance
asset_balance(A, account, asset_id) ==
    IF <<account, asset_id>> \in DOMAIN A.balances
    THEN A.balances[<<account, asset_id>>] ELSE AssetBalanceDefault

\* AssetService::set_account_value
set_account_value(A, account, asset_id, bal) ==
    [A EXCEPT !.balances = MapInsert(A.balances, <<account, asset_id>>, bal)]

\* AssetService::set_asset_
set_asset_(A, asset) == [A EXCEPT !.assets = MapInsert(A.assets, asset.id, asset)]

\* create_asset, lines 375-381: the issuers are written in order from index i
RECURSIVE set_init_mints(_, _, _, _)
set_init_mints(A, asset_id, init_mints, i) ==
    IF i > Len(init_mints) THEN A
    ELSE set_init_mints(
             set_account_value(A, init_mints[i].addr, asset_id,
                               AssetBalanceNew(init_mints[i].balance)),
             asset_id, init_mints, i + 1)

QuotaNotCalled == "<not called>"

\* A handler of the asset service returns [store, quota, ctx, resp] and, for
\* the record, the extra of the context it handed to the quota engine
ARet(A, Q, ctx, code) ==
    [store |-> A, quota |-> Q, ctx |-> ctx, resp |-> code, quota_extra |-> QuotaNotCalled]

\* InitGenesisPayload::verify (name and symbol are well formed in the model)
InitGenesisPayload_verify(payload) ==
    IF payload.id = DefaultHash THEN "MeaningLessValue"
    ELSE IF payload.admin = ZeroAddr THEN "MeaningLessValue"
    ELSE IF payload.supply = 0 THEN "MeaningLessValue"
    ELSE LET m == verify_issuers(payload.init_mints)
         IN  IF m.err # Ok THEN m.err
             ELSE IF m.sum # payload.supply THEN "MintNotEqualSupply"
             ELSE Ok

\* AssetService::init_genesis: the store after genesis (a payload that fails
\* its verification panics: no chain starts from it)
init_genesis(A, payload) ==
    IF InitGenesisPayload_verify(payload) # Ok THEN A
    ELSE LET asset == [id |-> payload.id, admin |-> payload.admin, supply |-> payload.supply,
                       relayable |-> payload.relayable]
         IN  set_init_mints([set_asset_(A, asset) EXCEPT !.native_asset = <<payload.id>>],
                            payload.id, payload.init_mints, 1)

\* AssetService::create_asset
create_asset(A, Q, ctx0, payload) ==
    IF ~cycles_attr_ok(ctx0, 21000) THEN ARet(A, Q, ctx0, "OutOfCycles")
    ELSE LET ctx == sub_cycles(ctx0, 21000) IN
    IF CreateAssetPayload_verify(payload) # Ok
    THEN ARet(A, Q, ctx, CreateAssetPayload_verify(payload))
    ELSE LET asset_id == digest(payload, ctx.caller) IN
    IF asset_id \in DOMAIN A.assets THEN ARet(A, Q, ctx, "Exists")
    ELSE LET asset == [id |-> asset_id, admin |-> payload.admin, supply |-> payload.supply,
                       relayable |-> payload.relayable]
             A1 == set_init_mints(set_asset_(A, asset), asset_id, payload.init_mints, 1)
         IN
    IF ~A.transfer_quota_service THEN ARet(A1, Q, emit_event(ctx, "asset", "CreateAsset"), Ok)
    ELSE LET q == create_asset_config(Q, [ctx EXCEPT !.extra = TRANSFER_QUOTA_TOKEN],
                      [asset_id |-> asset_id, admin |-> payload.admin])
         IN  IF q.resp # Ok
             THEN [ARet(A1, Q, ctx, "CreateTransferQuota") EXCEPT !.quota_extra = q.ctx.extra]
             ELSE [ARet(A1, q.store, emit_event(ctx, "asset", "CreateAsset"), Ok) EXCEPT !.quota_extra = q.ctx.extra]

_transfer_uncredited(A, sender, recipient, asset_id, value) ==
    IF sender = recipient THEN [err |-> Ok, store |-> A]
    ELSE LET sender_balance == asset_balance(A, sender, asset_id) IN
    IF sender_balance.value < value
    THEN [err |-> LackOfBalance(value, sender_balance.value), store |-> A]
    ELSE LET s == checked_sub(sender_balance, value)
         IN  IF s.err # Ok THEN [err |-> s.err, store |-> A]
             ELSE [err |-> Ok, store |-> set_account_value(A, sender, asset_id, s.bal)]

\* AssetService::_transfer: [err, store]
_transfer(A, sender, recipient, asset_id, value) ==
    IF sender = recipient THEN [err |-> Ok, store |-> A]
    ELSE LET sender_balance == asset_balance(A, sender, asset_id) IN
    IF sender_balance.value < value
    THEN [err |-> LackOfBalance(value, sender_balance.value), store |-> A]
    ELSE LET s == checked_sub(sender_balance, value) IN
    IF s.err # Ok THEN [err |-> s.err, store |-> A]
    ELSE LET A1 == set_account_value(A, sender, asset_id, s.bal)
             r == checked_add(asset_balance(A1, recipient, asset_id), value)
         IN  IF r.err # Ok THEN [err |-> r.err, store |-> A1]
             ELSE [err |-> Ok, store |-> set_account_value(A1, recipient, asset_id, r.bal)]

\* transfer and transfer_from, lines 441-456 and 510-525: after the quota
\* check answered q
transfer_checked(A, q, sender, recipient, asset_id, value, event) ==
    [ IF q.resp = "Panic" THEN ARet(A, q.store, q.ctx, "Panic")
      ELSE IF q.resp # Ok THEN ARet(A, q.store, q.ctx, "TransferQuota")
      ELSE LET t == _transfer(A, sender, recipient, asset_id, value)
           IN  IF t.err # Ok THEN ARet(t.store, q.store, q.ctx, t.err)
               ELSE ARet(t.store, q.store, emit_event(q.ctx, "asset", event), Ok)
    EXCEPT !.quota_extra = IF A.transfer_quota_service THEN q.ctx.extra ELSE QuotaNotCalled ]

\* AssetService::transfer
transfer(A, Q, K, T, ctx0, payload) ==
    IF ~cycles_attr_ok(ctx0, 21000) THEN ARet(A, Q, ctx0, "OutOfCycles")
    ELSE LET ctx == sub_cycles(ctx0, 21000) IN
    IF TransferPayload_verify(payload) # Ok THEN ARet(A, Q, ctx, TransferPayload_verify(payload))
    ELSE IF payload.asset_id \notin DOMAIN A.assets THEN ARet(A, Q, ctx, "AssetNotFound")
    ELSE IF extra_caller(ctx).err # Ok THEN ARet(A, Q, ctx, extra_caller(ctx).err)
    ELSE transfer_checked(A,
             IF A.transfer_quota_service
             THEN quota_transfer(Q, K, T, ctx,
                      [asset_id |-> payload.asset_id, address |-> ctx.caller,
                       amount |-> payload.value])
             ELSE Ret(Q, ctx, Ok),
             extra_caller(ctx).addr, payload.to, payload.asset_id, payload.value,
             "TransferAsset")

\* AssetService::transfer_from
transfer_from(A, Q, K, T, ctx0, payload) ==
    IF ~cycles_attr_ok(ctx0, 21000) THEN ARet(A, Q, ctx0, "OutOfCycles")
    ELSE LET ctx == sub_cycles(ctx0, 21000) IN
    IF TransferFromPayload_verify(payload) # Ok
    THEN ARet(A, Q, ctx, TransferFromPayload_verify(payload))
    ELSE IF payload.asset_id \notin DOMAIN A.assets THEN ARet(A, Q, ctx, "AssetNotFound")
    ELSE IF extra_caller(ctx).err # Ok THEN ARet(A, Q, ctx, extra_caller(ctx).err)
    ELSE LET caller == extra_caller(ctx).addr
             sender_balance == asset_balance(A, payload.sender, payload.asset_id)
             caller_allowance == allowance(sender_balance, caller)
         IN
    IF caller_allowance < payload.value
    THEN ARet(A, Q, ctx, LackOfBalance(payload.value, caller_allowance))
    ELSE LET checked_allowance == overflowing_sub(caller_allowance, payload.value) IN
    IF checked_allowance.overflow THEN ARet(A, Q, ctx, "BalanceOverflow")
    ELSE transfer_checked(
             set_account_value(A, payload.sender, payload.asset_id,
                 update_allowance(sender_balance, caller, checked_allowance.value)),
             IF A.transfer_quota_service
             THEN quota_transfer(Q, K, T, ctx,
                      [asset_id |-> payload.asset_id, address |-> payload.sender,
                       amount |-> payload.value])
             ELSE Ret(Q, ctx, Ok),
             payload.sender, payload.recipient, payload.asset_id, payload.value,
             "TransferFrom")

\* HookTransferFromPayload::verify
HookTransferFromPayload_verify(payload) ==
    IF payload.sender = ZeroAddr THEN "MeaningLessValue"
    ELSE IF payload.recipient = ZeroAddr THEN "MeaningLessValue"
    ELSE IF payload.value = 0 THEN "MeaningLessValue"
    ELSE Ok

\* AssetService::hook_transfer_from
hook_transfer_from(A, Q, ctx, payload) ==
    IF HookTransferFromPayload_verify(payload) # Ok
    THEN ARet(A, Q, ctx, HookTransferFromPayload_verify(payload))
    ELSE IF ctx.extra # NoExtra /\ ctx.extra # "governance" THEN ARet(A, Q, ctx, "Unauthorized")
    ELSE IF A.native_asset = <<>> THEN ARet(A, Q, ctx, "NoNativeAsset")
    ELSE LET t == _transfer(A, payload.sender, payload.recipient, A.native_asset[1],
                            payload.value)
         IN  ARet(t.store, Q, ctx, t.err)

\* AssetService::approve
approve(A, Q, ctx0, payload) ==
    IF ~cycles_attr_ok(ctx0, 21000) THEN ARet(A, Q, ctx0, "OutOfCycles")
    ELSE LET ctx == sub_cycles(ctx0, 21000) IN
    IF TransferPayload_verify(payload) # Ok THEN ARet(A, Q, ctx, TransferPayload_verify(payload))
    ELSE IF payload.asset_id \notin DOMAIN A.assets THEN ARet(A, Q, ctx, "AssetNotFound")
    ELSE IF ctx.caller = payload.to THEN ARet(A, Q, ctx, "ApproveToSelf")
    ELSE LET caller_balance == asset_balance(A, ctx.caller, payload.asset_id)
         IN  ARet(set_account_value(A, ctx.caller, payload.asset_id,
                      update_allowance(caller_balance, payload.to, payload.value)),
                  Q, emit_event(ctx, "asset", "ApproveAsset"), Ok)

mint_unchecked_supply(A, Q, ctx0, payload) ==
    IF ~cycles_attr_ok(ctx0, 21000) THEN ARet(A, Q, ctx0, "OutOfCycles")
    ELSE LET ctx == sub_cycles(ctx0, 21000) IN
    IF MintAssetPayload_verify(payload) # Ok
    THEN ARet(A, Q, ctx, MintAssetPayload_verify(payload))
    ELSE IF payload.asset_id \notin DOMAIN A.assets THEN ARet(A, Q, ctx, "AssetNotFound")
    ELSE LET asset == A.assets[payload.asset_id] IN
    IF asset.admin # ctx.caller THEN ARet(A, Q, ctx, "Unauthorized")
    ELSE LET recipient_balance ==
                 checked_add(asset_balance(A, payload.to, payload.asset_id), payload.amount)
         IN
    IF recipient_balance.err # Ok THEN ARet(A, Q, ctx, recipient_balance.err)
    ELSE LET checked_value == overflowing_add(asset.supply, payload.amount)
         IN  ARet(set_account_value(
                      set_asset_(A, [asset EXCEPT !.supply = checked_value.value]),
                      payload.to, payload.asset_id, recipient_balance.bal),
                  Q, emit_event(ctx, "asset", "MintAsset"), Ok)

\* AssetService::mint
mint(A, Q, ctx0, payload) ==
    IF ~cycles_attr_ok(ctx0, 21000) THEN ARet(A, Q, ctx0, "OutOfCycles")
    ELSE LET ctx == sub_cycles(ctx0, 21000) IN
    IF MintAssetPayload_verify(payload) # Ok
    THEN ARet(A, Q, ctx, MintAssetPayload_verify(payload))
    ELSE IF payload.asset_id \notin DOMAIN A.assets THEN ARet(A, Q, ctx, "AssetNotFound")
    ELSE LET asset == A.assets[payload.asset_id] IN
    IF asset.admin # ctx.caller THEN ARet(A, Q, ctx, "Unauthorized")
    ELSE LET recipient_balance ==
                 checked_add(asset_balance(A, payload.to, payload.asset_id), payload.amount)
         IN
    IF recipient_balance.err # Ok THEN ARet(A, Q, ctx, recipient_balance.err)
    ELSE LET checked_value == overflowing_add(asset.supply, payload.amount) IN
    IF checked_value.overflow THEN ARet(A, Q, ctx, "BalanceOverflow")
    ELSE ARet(set_account_value(
                  set_asset_(A, [asset EXCEPT !.supply = checked_value.value]),
                  payload.to, payload.asset_id, recipient_balance.bal),
              Q, emit_event(ctx, "asset", "MintAsset"), Ok)

\* AssetService::burn
burn(A, Q, ctx0, payload) ==
    IF ~cycles_attr_ok(ctx0, 21000) THEN ARet(A, Q, ctx0, "OutOfCycles")
    ELSE LET ctx == sub_cycles(ctx0, 21000) IN
    IF BurnAssetPayload_verify(payload) # Ok
    THEN ARet(A, Q, ctx, BurnAssetPayload_verify(payload))
    ELSE IF payload.asset_id \notin DOMAIN A.assets THEN ARet(A, Q, ctx, "AssetNotFound")
    ELSE LET asset == A.assets[payload.asset_id]
             burner_balance ==
                 checked_sub(asset_balance(A, ctx.caller, payload.asset_id), payload.amount)
         IN
    IF burner_balance.err # Ok THEN ARet(A, Q, ctx, burner_balance.err)
    ELSE LET checked_value == overflowing_sub(asset.supply, payload.amount) IN
    IF checked_value.overflow THEN ARet(A, Q, ctx, "BalanceOverflow")
    ELSE ARet(set_account_value(
                  set_asset_(A, [asset EXCEPT !.supply = checked_value.value]),
                  ctx.caller, payload.asset_id, burner_balance.bal),
              Q, emit_event(ctx, "asset", "BurnAsset"), Ok)

\* relay, lines 670-683: after the burn answered resp
relay_burnt(resp) ==
    IF resp.resp # Ok THEN resp
    ELSE [resp EXCEPT !.ctx = emit_event(resp.ctx, "asset", "RelayAsset")]

\* AssetService::relay
relay(A, Q, ctx0, payload) ==
    IF ~cycles_attr_ok(ctx0, 21000) THEN ARet(A, Q, ctx0, "OutOfCycles")
    ELSE LET ctx == sub_cycles(ctx0, 21000) IN
    IF BurnAssetPayload_verify(payload) # Ok
    THEN ARet(A, Q, ctx, BurnAssetPayload_verify(payload))
    ELSE IF payload.asset_id \notin DOMAIN A.assets THEN ARet(A, Q, ctx, "AssetNotFound")
    ELSE IF ~A.assets[payload.asset_id].relayable THEN ARet(A, Q, ctx, "NotRelayable")
    ELSE relay_burnt(burn(A, Q, ctx, payload))

change_admin_by_anyone(A, Q, ctx0, payload) ==
    IF ~cycles_attr_ok(ctx0, 21000) THEN ARet(A, Q, ctx0, "OutOfCycles")
    ELSE LET ctx == sub_cycles(ctx0, 21000) IN
    IF ChangeAdminPayload_verify(payload) # Ok
    THEN ARet(A, Q, ctx, ChangeAdminPayload_verify(payload))
    ELSE IF payload.asset_id \notin DOMAIN A.assets THEN ARet(A, Q, ctx, "AssetNotFound")
    ELSE LET asset == A.assets[payload.asset_id]
         IN  ARet(set_asset_(A, [asset EXCEPT !.admin = payload.new_admin]), Q,
                  emit_event(ctx, "asset", "ChangeAdmin"), Ok)

\* AssetService::change_admin
change_admin(A, Q, ctx0, payload) ==
    IF ~cycles_attr_ok(ctx0, 21000) THEN ARet(A, Q, ctx0, "OutOfCycles")
    ELSE LET ctx == sub_cycles(ctx0, 21000) IN
    IF ChangeAdminPayload_verify(payload) # Ok
    THEN ARet(A, Q, ctx, ChangeAdminPayload_verify(payload))
    ELSE IF payload.asset_id \notin DOMAIN A.assets THEN ARet(A, Q, ctx, "AssetNotFound")
    ELSE LET asset == A.assets[payload.asset_id] IN
    IF asset.admin # ctx.caller THEN ARet(A, Q, ctx, "Unauthorized")
    ELSE ARet(set_asset_(A, [asset EXCEPT !.admin = payload.new_admin]), Q,
              emit_event(ctx, "asset", "ChangeAdmin"), Ok)

(***************************************************************************)
(* RISC-V service: riscv/src/lib.rs with the chain bridge of               *)
(* riscv/src/vm/chain_interface.rs.  The store is                          *)
(*   [code, contracts, storage, grants, admins]                            *)
(* code: code hash -> bytes, contracts: address -> Contract, storage:      *)
(* <<contract address, key>> -> value, grants: <<address, kind>> ->        *)
(* authorizer, admins: the set of service admins.                          *)
(***************************************************************************)
\* Authorization::granted (the registry is described in section 4.1 of the
\* specification: the grant tables are keyed by address and kind)
granted(R, address, kind) == <<address, kind>> \in DOMAIN R.grants

\* Authorization::is_admin
is_admin(R, ctx) == ctx.caller \in R.admins

\* Authorization::grant: idempotent, the last authorizer is kept
grant(R, address, kind, authorizer) ==
    [R EXCEPT !.grants = MapInsert(R.grants, <<address, kind>>, authorizer)]

\* Authorization::revoke: revoking a non-grant is a no-op
revoke(R, address, kind) ==
    [R EXCEPT !.grants = MapRemove(R.grants, <<address, kind>>)]

\* hex::decode on the code of a deploy payload: [ok, bytes]
hex_decode(code) ==
    CASE code = "01"   -> [ok |-> TRUE, bytes |-> <<1>>]
      [] code = "0102" -> [ok |-> TRUE, bytes |-> <<1, 2>>]
      [] OTHER         -> [ok |-> FALSE, bytes |-> <<>>]

\* Hash::digest of code bytes: injective on the codes of the model
code_digest(bytes) == [digest |-> bytes]

NoTxHash == 0

\* deploy, line 258: the first 20 bytes of Hash::digest(tx_hash), injective on
\* the transaction hashes of the model and apart from the account addresses
contract_address_of(tx_hash) == 10 + tx_hash

\* AssetService::get_balance: [ctx, err, balance]
get_balance(A, ctx0, payload) ==
    IF ~cycles_attr_ok(ctx0, 10000) THEN [ctx |-> ctx0, err |-> "OutOfCycles", balance |-> 0]
    ELSE LET ctx == sub_cycles(ctx0, 10000) IN
    IF payload.asset_id = DefaultHash \/ payload.user = ZeroAddr
    THEN [ctx |-> ctx, err |-> "MeaningLessValue", balance |-> 0]
    ELSE IF payload.asset_id \notin DOMAIN A.assets
    THEN [ctx |-> ctx, err |-> "AssetNotFound", balance |-> 0]
    ELSE [ctx |-> ctx, err |-> Ok,
          balance |-> asset_balance(A, payload.user, payload.asset_id).value]

\* GetAllowancePayload::verify
GetAllowancePayload_verify(payload) ==
    IF payload.asset_id = DefaultHash THEN "MeaningLessValue"
    ELSE IF payload.grantor = ZeroAddr THEN "MeaningLessValue"
    ELSE IF payload.grantee = ZeroAddr THEN "MeaningLessValue"
    ELSE Ok

\* AssetService::get_allowance: [ctx, err, value]
get_allowance(A, ctx0, payload) ==
    IF ~cycles_attr_ok(ctx0, 10000) THEN [ctx |-> ctx0, err |-> "OutOfCycles", value |-> 0]
    ELSE IF GetAllowancePayload_verify(payload) # Ok
    THEN [ctx |-> sub_cycles(ctx0, 10000), err |-> GetAllowancePayload_verify(payload),
          value |-> 0]
    ELSE IF payload.asset_id \notin DOMAIN A.assets
    THEN [ctx |-> sub_cycles(ctx0, 10000), err |-> "AssetNotFound", value |-> 0]
    ELSE [ctx |-> sub_cycles(ctx0, 10000), err |-> Ok,
          value |-> allowance(asset_balance(A, payload.grantor, payload.asset_id),
                              payload.grantee)]

\* The state a run of the VM works on: the stores behind the bridge, the
\* context (its meter is shared with the bridge's clone), the address of the
\* running contract, the bridge's all_cycles_used, the machine's cycle counter,
\* the responses the bridge gave to the syscalls so far and, for each of them,
\* the meters at its entry and at its return
Machine(R, A, Q, ctx, address) ==
    [R |-> R, A |-> A, Q |-> Q, ctx |-> ctx, address |-> address,
     all_cycles_used |-> 0, cycles |-> 0, log |-> <<>>, trace |-> <<>>]

ChainRet(st, code, cycle) == [st |-> st, resp |-> code, cycle |-> cycle]

\* WriteableChain::read_asset and write_asset: the ServiceResponse of the
\* asset service is turned into the bridge's answer
asset_read_response(st, r) == [st |-> [st EXCEPT !.ctx = r.ctx], resp |-> r.err]

asset_write_response(st, r) ==
    [st |-> [st EXCEPT !.A = r.store, !.Q = r.quota, !.ctx = r.ctx], resp |-> r.resp]

\* WriteableChain::read_asset (of its methods, balance is modelled)
read_asset(st, method, payload) ==
    IF method = "balance" THEN asset_read_response(st, get_balance(st.A, st.ctx, payload))
    ELSE [st |-> st, resp |-> "MethodNotFound"]

\* WriteableChain::write_asset (of its methods, burn_ is modelled)
write_asset(st, method, payload) ==
    IF method = "burn_" THEN asset_write_response(st, burn(st.A, st.Q, st.ctx, payload))
    ELSE [st |-> st, resp |-> "MethodNotFound"]

\* WriteableChain::set_storage
WriteableChain_set_storage(st, key, val) ==
    ChainRet([st EXCEPT !.R.storage = MapInsert(st.R.storage, <<st.address, key>>, val)], Ok, 0)

\* The closure service_read hands to serve
service_read_closure(s, service, method, payload) ==
    IF service = "asset" THEN read_asset(s, method, payload)
    ELSE [st |-> s, resp |-> "ServiceNotFound"]

\* The closure service_write hands to serve
service_write_closure(s, service, method, payload) ==
    IF service = "asset" THEN write_asset(s, method, payload)
    ELSE [st |-> s, resp |-> "ServiceNotFound"]

served_stale(r) ==
    IF r.resp # Ok THEN ChainRet(r.st, r.resp, 0)
    ELSE ChainRet(r.st, Ok, r.st.ctx.cycles_used)

\* WriteableChain::serve, lines 138-144: the answer r of the closure
served(r) ==
    IF r.resp # Ok THEN ChainRet(r.st, r.resp, 0)
    ELSE ChainRet([r.st EXCEPT !.all_cycles_used = r.st.ctx.cycles_used],
                  Ok, r.st.ctx.cycles_used)

serve_from_zero(st, current_cycle, write, service, method, payload) ==
    IF current_cycle < st.all_cycles_used THEN ChainRet(st, "OutOfCycles", 0)
    ELSE IF ~sub_cycles_ok(st.ctx, current_cycle)
    THEN ChainRet(st, "OutOfCycles", 0)
    ELSE IF write
    THEN served(service_write_closure(
                    [st EXCEPT !.ctx = sub_cycles(st.ctx, current_cycle)],
                    service, method, payload))
    ELSE served(service_read_closure(
                    [st EXCEPT !.ctx = sub_cycles(st.ctx, current_cycle)],
                    service, method, payload))

\* WriteableChain::serve; the closure f is named by write and its arguments
serve(st, current_cycle, write, service, method, payload) ==
    IF current_cycle < st.all_cycles_used THEN ChainRet(st, "OutOfCycles", 0)
    ELSE IF ~sub_cycles_ok(st.ctx, current_cycle - st.all_cycles_used)
    THEN ChainRet(st, "OutOfCycles", 0)
    ELSE IF write
    THEN served(service_write_closure(
                    [st EXCEPT !.ctx = sub_cycles(st.ctx, current_cycle - st.all_cycles_used)],
                    service, method, payload))
    ELSE served(service_read_closure(
                    [st EXCEPT !.ctx = sub_cycles(st.ctx, current_cycle - st.all_cycles_used)],
                    service, method, payload))

\* WriteableChain::service_read (the requests of the model name the asset
\* service or a service the bridge does not know)
WriteableChain_service_read(st, service, method, payload, current_cycle) ==
    serve(st, current_cycle, FALSE, service, method, payload)

\* WriteableChain::service_write
WriteableChain_service_write(st, service, method, payload, current_cycle) ==
    serve(st, current_cycle, TRUE, service, method, payload)

\* WriteableChain::contract_call
WriteableChain_contract_call(st, address, args, current_cycle) ==
    WriteableChain_service_write(st, "riscv", "exec", [address |-> address, args |-> args],
                                 current_cycle)

ReadonlyChain_set_storage_writes(st, key, val) ==
    ChainRet([st EXCEPT !.R.storage = MapInsert(st.R.storage, <<st.address, key>>, val)],
             "WriteInReadonlyContext", 0)

\* ReadonlyChain::set_storage
ReadonlyChain_set_storage(st, key, val) == ChainRet(st, "WriteInReadonlyContext", 0)

\* ReadonlyChain::service_read
ReadonlyChain_service_read(st, service, method, payload, current_cycle) ==
    WriteableChain_service_read(st, service, method, payload, current_cycle)

\* ReadonlyChain::service_write
ReadonlyChain_service_write(st, service, method, payload, current_cycle) ==
    ChainRet(st, "WriteInReadonlyContext", 0)

\* ReadonlyChain::contract_call
ReadonlyChain_contract_call(st, address, args, current_cycle) ==
    ReadonlyChain_service_read(st, "riscv", "call", [address |-> address, args |-> args],
                               current_cycle)

\* SyscallChainInterface: the call of the bridge an ecall stands for
chain_call(st, readonly, s, current_cycle) ==
    CASE s.kind = "set_storage" ->
            IF readonly THEN ReadonlyChain_set_storage(st, s.key, s.val)
            ELSE WriteableChain_set_storage(st, s.key, s.val)
      [] s.kind = "service_read" ->
            IF readonly
            THEN ReadonlyChain_service_read(st, s.service, s.method, s.payload, current_cycle)
            ELSE WriteableChain_service_read(st, s.service, s.method, s.payload, current_cycle)
      [] s.kind = "service_write" ->
            IF readonly
            THEN ReadonlyChain_service_write(st, s.service, s.method, s.payload, current_cycle)
            ELSE WriteableChain_service_write(st, s.service, s.method, s.payload, current_cycle)
      [] s.kind = "contract_call" ->
            IF readonly
            THEN ReadonlyChain_contract_call(st, s.address, s.args, current_cycle)
            ELSE WriteableChain_contract_call(st, s.address, s.args, current_cycle)

\* What one ecall did to the meters: st0 is the state at its entry, r the
\* bridge's answer and cycle the machine's counter after it
Boundary(st0, r, s, current_cycle, cycle) ==
    [kind |-> s.kind, ecall |-> s, current_cycle |-> current_cycle,
     all_before |-> st0.all_cycles_used, used_before |-> st0.ctx.cycles_used,
     resp |-> r.resp, used_after |-> r.st.ctx.cycles_used,
     all_after |-> r.st.all_cycles_used, cycle |-> cycle,
     kept |-> (r.st.R = st0.R /\ r.st.A = st0.A /\ r.st.Q = st0.Q)]

\* SyscallChainInterface: the bridge answered r; a service call that succeeds
\* hands the bridge's cycle count back to the machine.  [st, resp]
ecall_return(st0, r, s, current_cycle) ==
    [st |-> [r.st EXCEPT
                !.cycles = IF r.resp = Ok /\ s.kind # "set_storage"
                           THEN r.cycle ELSE current_cycle,
                !.log = Append(r.st.log, r.resp),
                !.trace = Append(r.st.trace,
                              Boundary(st0, r, s, current_cycle,
                                       IF r.resp = Ok /\ s.kind # "set_storage"
                                       THEN r.cycle ELSE current_cycle))],
     resp |-> r.resp]

\* One ecall of the running program through SyscallChainInterface: the
\* machine has counted s.work cycles since the last boundary.  [st, resp]
ecall(st0, readonly, s) ==
    ecall_return(st0,
        chain_call([st0 EXCEPT !.cycles = st0.cycles + s.work], readonly, s,
                   st0.cycles + s.work),
        s, st0.cycles + s.work)

\* The machine halts after the last ecall: [st, err, ret_code, cycles_used]
halt(st, program) ==
    IF st.cycles + program.work > st.ctx.cycles_limit
    THEN [st |-> st, err |-> "InvalidCycles", ret_code |-> 0,
          cycles_used |-> st.cycles + program.work]
    ELSE [st |-> st, err |-> Ok, ret_code |-> program.ret_code,
          cycles_used |-> st.cycles + program.work]

\* Interpreter::run from the i-th ecall of the program, r being the answer
\* [st, resp] to the ecall before it: the machine stops with an error when
\* an ecall fails or when its counter passes max_cycles (the cycle limit of
\* the context).  [st, err, ret_code, cycles_used]
RECURSIVE run_from(_, _, _, _)
run_from(r, readonly, program, i) ==
    IF r.resp # Ok
    THEN [st |-> r.st, err |-> r.resp, ret_code |-> 0, cycles_used |-> r.st.cycles]
    ELSE IF i > Len(program.ecalls) THEN halt(r.st, program)
    ELSE IF r.st.cycles + program.ecalls[i].work > r.st.ctx.cycles_limit
    THEN [st |-> r.st, err |-> "InvalidCycles", ret_code |-> 0, cycles_used |-> r.st.cycles]
    ELSE run_from(ecall(r.st, readonly, program.ecalls[i]), readonly, program, i + 1)

\* Interpreter::run
Interpreter_run(st, readonly, program) ==
    run_from([st |-> st, resp |-> Ok], readonly, program, 1)

load_contract_found(R, address) ==
    IF address \notin DOMAIN R.contracts
    THEN [err |-> Ok, contract |-> [code_hash |-> code_digest(<<>>)]]
    ELSE [err |-> Ok, contract |-> R.contracts[address]]

\* RiscvService::load_contract: [err, contract]
load_contract(R, address) ==
    IF address \notin DOMAIN R.contracts
    THEN [err |-> "ContractNotFound", contract |-> [code_hash |-> code_digest(<<>>)]]
    ELSE [err |-> Ok, contract |-> R.contracts[address]]

\* RiscvService::load_contract_code: [err, contract, code]
load_contract_code(R, address) ==
    LET c == load_contract(R, address)
    IN  IF c.err # Ok THEN [err |-> c.err, contract |-> c.contract, code |-> <<>>]
        ELSE IF c.contract.code_hash \notin DOMAIN R.code
        THEN [err |-> "CodeNotFound", contract |-> c.contract, code |-> <<>>]
        ELSE [err |-> Ok, contract |-> c.contract, code |-> R.code[c.contract.code_hash]]

\* A handler of the riscv service returns the stores, the context, the
\* response, whether the VM was started and the bridge's answers to the ecalls
RRet(R, A, Q, ctx, code, started, log) ==
    [store |-> R, asset |-> A, quota |-> Q, ctx |-> ctx, resp |-> code,
     started |-> started, log |-> log, trace |-> <<>>, vm_cycles |-> 0, ret |-> <<>>]

\* run_interpreter, lines 393-406: the match on the result of Interpreter::run
interpreter_match(int_ret) ==
    IF int_ret.err # Ok
    THEN RRet(int_ret.st.R, int_ret.st.A, int_ret.st.Q, int_ret.st.ctx, "CkbVm", TRUE,
              int_ret.st.log)
    ELSE IF int_ret.ret_code = 0
    THEN IF ~sub_cycles_ok(int_ret.st.ctx, int_ret.cycles_used)
         THEN RRet(int_ret.st.R, int_ret.st.A, int_ret.st.Q, int_ret.st.ctx, "OutOfCycles",
                   TRUE, int_ret.st.log)
         ELSE RRet(int_ret.st.R, int_ret.st.A, int_ret.st.Q,
                   sub_cycles(int_ret.st.ctx, int_ret.cycles_used), Ok, TRUE, int_ret.st.log)
    ELSE RRet(int_ret.st.R, int_ret.st.A, int_ret.st.Q, int_ret.st.ctx, "NonZeroExitCode",
              TRUE, int_ret.st.log)

\* run_interpreter, lines 385-406: the response with, for the record, the
\* boundaries of the run and the machine's counter at its end
interpreter_result(int_ret) ==
    [interpreter_match(int_ret) EXCEPT
        !.trace = int_ret.st.trace, !.vm_cycles = int_ret.cycles_used]

\* RiscvService::run_interpreter
run_interpreter(st0, readonly, program) ==
    interpreter_result(Interpreter_run(st0, readonly, program))

\* RiscvService::call; payload.args stands for the program the contract's
\* code runs on these arguments
call(R, A, Q, ctx, payload) ==
    IF ~granted(R, payload.address, "Contract")
    THEN RRet(R, A, Q, ctx, "NonAuthorized", FALSE, <<>>)
    ELSE LET c == load_contract_code(R, payload.address) IN
    IF c.err # Ok THEN RRet(R, A, Q, ctx, c.err, FALSE, <<>>)
    ELSE run_interpreter(Machine(R, A, Q, ctx, payload.address), TRUE, payload.args)

exec_ungated(R, A, Q, ctx, payload) ==
    LET c == load_contract_code(R, payload.address) IN
    IF c.err # Ok THEN RRet(R, A, Q, ctx, c.err, FALSE, <<>>)
    ELSE run_interpreter(Machine(R, A, Q, ctx, payload.address), FALSE, payload.args)

\* RiscvService::exec
exec(R, A, Q, ctx, payload) ==
    IF ~granted(R, payload.address, "Contract")
    THEN RRet(R, A, Q, ctx, "NonAuthorized", FALSE, <<>>)
    ELSE LET c == load_contract_code(R, payload.address) IN
    IF c.err # Ok THEN RRet(R, A, Q, ctx, c.err, FALSE, <<>>)
    ELSE run_interpreter(Machine(R, A, Q, ctx, payload.address), FALSE, payload.args)

\* grant_deploy_auth and revoke_deploy_auth, lines 196-202 and 217-220
RECURSIVE grant_each(_, _, _, _, _)
grant_each(R, addresses, kind, authorizer, i) ==
    IF i > Len(addresses) THEN R
    ELSE grant_each(grant(R, addresses[i], kind, authorizer), addresses, kind, authorizer,
                    i + 1)

RECURSIVE revoke_each(_, _, _, _)
revoke_each(R, addresses, kind, i) ==
    IF i > Len(addresses) THEN R
    ELSE revoke_each(revoke(R, addresses[i], kind), addresses, kind, i + 1)

grant_deploy_auth_open(R, A, Q, ctx, payload) ==
    IF ~sub_cycles_ok(ctx, Len(payload.addresses) * 10000)
    THEN RRet(R, A, Q, ctx, "OutOfCycles", FALSE, <<>>)
    ELSE RRet(grant_each(R, payload.addresses, "Deploy", ctx.caller, 1), A, Q,
              sub_cycles(ctx, Len(payload.addresses) * 10000), Ok, FALSE, <<>>)

\* RiscvService::grant_deploy_auth
grant_deploy_auth(R, A, Q, ctx, payload) ==
    IF ~is_admin(R, ctx) THEN RRet(R, A, Q, ctx, "NonAuthorized", FALSE, <<>>)
    ELSE IF ~sub_cycles_ok(ctx, Len(payload.addresses) * 10000)
    THEN RRet(R, A, Q, ctx, "OutOfCycles", FALSE, <<>>)
    ELSE RRet(grant_each(R, payload.addresses, "Deploy", ctx.caller, 1), A, Q,
              sub_cycles(ctx, Len(payload.addresses) * 10000), Ok, FALSE, <<>>)

\* RiscvService::revoke_deploy_auth
revoke_deploy_auth(R, A, Q, ctx, payload) ==
    IF ~is_admin(R, ctx) THEN RRet(R, A, Q, ctx, "NonAuthorized", FALSE, <<>>)
    ELSE IF ~sub_cycles_ok(ctx, Len(payload.addresses) * 10000)
    THEN RRet(R, A, Q, ctx, "OutOfCycles", FALSE, <<>>)
    ELSE RRet(revoke_each(R, payload.addresses, "Deploy", 1), A, Q,
              sub_cycles(ctx, Len(payload.addresses) * 10000), Ok, FALSE, <<>>)

\* approve_contract, lines 317-324: [R, err]
RECURSIVE approve_each(_, _, _, _)
approve_each(R, addresses, authorizer, i) ==
    IF i > Len(addresses) THEN [R |-> R, err |-> Ok]
    ELSE IF load_contract(R, addresses[i]).err # Ok
         THEN [R |-> R, err |-> load_contract(R, addresses[i]).err]
    ELSE approve_each(grant(R, addresses[i], "Contract", authorizer), addresses, authorizer,
                      i + 1)

\* revoke_contract, lines 340-347: [R, err]
RECURSIVE revoke_contract_each(_, _, _)
revoke_contract_each(R, addresses, i) ==
    IF i > Len(addresses) THEN [R |-> R, err |-> Ok]
    ELSE IF load_contract(R, addresses[i]).err # Ok
         THEN [R |-> R, err |-> load_contract(R, addresses[i]).err]
    ELSE revoke_contract_each(revoke(R, addresses[i], "Contract"), addresses, i + 1)

\* RiscvService::approve_contract
approve_contract(R, A, Q, ctx, payload) ==
    IF ~is_admin(R, ctx) THEN RRet(R, A, Q, ctx, "NonAuthorized", FALSE, <<>>)
    ELSE IF ~sub_cycles_ok(ctx, Len(payload.addresses) * 10000)
    THEN RRet(R, A, Q, ctx, "OutOfCycles", FALSE, <<>>)
    ELSE LET r == approve_each(R, payload.addresses, ctx.caller, 1)
         IN  RRet(r.R, A, Q, sub_cycles(ctx, Len(payload.addresses) * 10000), r.err, FALSE,
                  <<>>)

\* RiscvService::revoke_contract
revoke_contract(R, A, Q, ctx, payload) ==
    IF ~is_admin(R, ctx) THEN RRet(R, A, Q, ctx, "NonAuthorized", FALSE, <<>>)
    ELSE IF ~sub_cycles_ok(ctx, Len(payload.addresses) * 10000)
    THEN RRet(R, A, Q, ctx, "OutOfCycles", FALSE, <<>>)
    ELSE LET r == revoke_contract_each(R, payload.addresses, 1)
         IN  RRet(r.R, A, Q, sub_cycles(ctx, Len(payload.addresses) * 10000), r.err, FALSE,
                  <<>>)

deploy_resp_caller(resp, contract_address) ==
    IF resp.resp # Ok THEN resp
    ELSE [resp EXCEPT !.ret = <<[address |-> resp.ctx.caller]>>]

\* deploy, lines 270-275 and 297-302: a deploy that succeeds answers with a
\* DeployResp that carries the contract's address
deploy_resp(resp, contract_address) ==
    IF resp.resp # Ok THEN resp
    ELSE [resp EXCEPT !.ret = <<[address |-> contract_address]>>]

deploy_unsaved_code(R, A, Q, ctx0, payload) ==
    IF ~granted(R, ctx0.caller, "Deploy")
    THEN RRet(R, A, Q, ctx0, "NonAuthorized", FALSE, <<>>)
    ELSE IF ~hex_decode(payload.code).ok THEN RRet(R, A, Q, ctx0, "HexDecode", FALSE, <<>>)
    ELSE LET code == hex_decode(payload.code).bytes
             code_hash == code_digest(code)
             code_len == Len(code)
         IN
    IF ~sub_cycles_ok(ctx0, code_len * 10) THEN RRet(R, A, Q, ctx0, "OutOfCycles", FALSE, <<>>)
    ELSE LET ctx == sub_cycles(ctx0, code_len * 10)
         IN
    IF ctx.tx_hash = NoTxHash THEN RRet(R, A, Q, ctx, "NotInExecContext", FALSE, <<>>)
    ELSE LET contract_address == contract_address_of(ctx.tx_hash)
             contract == [code_hash |-> code_hash, intp_type |-> payload.intp_type]
             R2 == [R EXCEPT !.contracts = MapInsert(R.contracts, contract_address, contract)]
         IN
    IF payload.init_args.text = ""
    THEN deploy_resp(RRet(R2, A, Q, ctx, Ok, FALSE, <<>>), contract_address)
    ELSE deploy_resp(
             run_interpreter(Machine(R2, A, Q, ctx, contract_address), FALSE,
                             payload.init_args),
             contract_address)

\* RiscvService::deploy; payload.init_args stands for the program the code
\* runs on the init arguments
deploy(R, A, Q, ctx0, payload) ==
    IF ~granted(R, ctx0.caller, "Deploy")
    THEN RRet(R, A, Q, ctx0, "NonAuthorized", FALSE, <<>>)
    ELSE IF ~hex_decode(payload.code).ok THEN RRet(R, A, Q, ctx0, "HexDecode", FALSE, <<>>)
    ELSE LET code == hex_decode(payload.code).bytes
             code_hash == code_digest(code)
             code_len == Len(code)
         IN
    IF ~sub_cycles_ok(ctx0, code_len * 10) THEN RRet(R, A, Q, ctx0, "OutOfCycles", FALSE, <<>>)
    ELSE LET ctx == sub_cycles(ctx0, code_len * 10)
             R1 == [R EXCEPT !.code = MapInsert(R.code, code_hash, code)]
         IN
    IF ctx.tx_hash = NoTxHash THEN RRet(R1, A, Q, ctx, "NotInExecContext", FALSE, <<>>)
    ELSE LET contract_address == contract_address_of(ctx.tx_hash)
             contract == [code_hash |-> code_hash, intp_type |-> payload.intp_type]
             R2 == [R1 EXCEPT !.contracts = MapInsert(R1.contracts, contract_address, contract)]
         IN
    IF payload.init_args.text = ""
    THEN deploy_resp(RRet(R2, A, Q, ctx, Ok, FALSE, <<>>), contract_address)
    ELSE deploy_resp(
             run_interpreter(Machine(R2, A, Q, ctx, contract_address), FALSE,
                             payload.init_args),
             contract_address)

(***************************************************************************)
(* Genesis states and request inputs.                                      *)
(***************************************************************************)
EmptyAssetStore ==
    [assets |-> <<>>, balances |-> <<>>, native_asset |-> <<>>,
     transfer_quota_service |-> TRUE]

EmptyQuotaStore == [asset_config |-> <<>>, account_record |-> <<>>]

EmptyRiscvStore ==
    [code |-> <<>>, contracts |-> <<>>, storage |-> <<>>, grants |-> <<>>, admins |-> {}]

EmptyKycStore ==
    [service_admin |-> 1, orgs |-> <<>>, user_tag_names |-> <<>>, user_tags |-> <<>>]

\* 2020-09-06T17:41:13Z, the start time of the quota tests
TimeOriginal == [days |-> 18511, ms |-> 63673000]

TimestampGenesis ==
    [time |-> TimeOriginal, has_info |-> TRUE, oracle |-> FALSE, admin |-> 1]

\* later the same day, the next day, 2020-10-06 and 2021-09-06
Moments ==
    { TimeOriginal,
      [days |-> 18511, ms |-> 63913000],
      [days |-> 18512, ms |-> 63913000],
      [days |-> 18541, ms |-> 63913000],
      [days |-> 18876, ms |-> 63913000] }

ExprL1 ==
    [text |-> "Huobi.level@'L1'", neg |-> FALSE, org |-> "Huobi", tag |-> "level", value |-> "L1"]

ExprNull ==
    [text |-> "Huobi.level@'NULL'", neg |-> FALSE, org |-> "Huobi", tag |-> "level",
     value |-> "NULL"]

ExprNotNull ==
    [text |-> "!Huobi.level@'NULL'", neg |-> TRUE, org |-> "Huobi", tag |-> "level",
     value |-> "NULL"]

ExprBeta ==
    [text |-> "Beta.level@'L1'", neg |-> FALSE, org |-> "Beta", tag |-> "level", value |-> "L1"]

\* Huobi is approved and Beta is not; the users of tagged carry level L1
KycGenesis(tagged) ==
    [service_admin |-> 1,
     orgs |-> [o \in {"Huobi", "Beta"} |->
                 [admin |-> 1, supported_tags |-> <<"level">>, approved |-> (o = "Huobi")]],
     user_tag_names |-> [k \in {<<"Huobi", u>> : u \in tagged} |-> <<"level">>],
     user_tags |-> [k \in {<<"Huobi", u, "level">> : u \in tagged} |-> <<"L1">>]]

Rule(kyc_expr, quota) == [kyc_expr |-> kyc_expr, quota |-> quota]

\* a config whose matching rules carry the quotas q[1..4] for the four buckets;
\* with full = FALSE the monthly bucket has no rule for an untagged user
QuotaConfig(activated, q, full) ==
    [admin |-> 1, activated |-> activated,
     single_bill_quota  |-> <<Rule(ExprL1, q[1]), Rule(ExprNull, q[1])>>,
     daily_quota_rule   |-> <<Rule(ExprBeta, 0), Rule(ExprNotNull, q[2]), Rule(ExprNull, q[2])>>,
     monthly_quota_rule |-> IF full THEN <<Rule(ExprNull, q[3]), Rule(ExprL1, q[3])>>
                            ELSE <<Rule(ExprL1, q[3])>>,
     yearly_quota_rule  |-> <<Rule(ExprNotNull, q[4]), Rule(ExprL1, U64Max),
                              Rule(ExprNull, q[4])>>]

QuotaConfigs ==
    { QuotaConfig(TRUE, <<U64Max, U64Max - 1, U64Max, U64Max>>, TRUE),
      QuotaConfig(TRUE, <<U64Max, U64Max, U64Max - 1, U64Max>>, TRUE),
      QuotaConfig(TRUE, <<U64Max, U64Max, U64Max, U64Max - 1>>, TRUE),
      QuotaConfig(TRUE, <<1, U64Max, U64Max, U64Max>>, FALSE),
      QuotaConfig(FALSE, <<1, 1, 1, 1>>, TRUE) }

QuotaAsset == 1

QuotaAddrs == {1}

QuotaGenesis(config) ==
    [asset_config |-> [a \in {QuotaAsset} |-> config], account_record |-> <<>>]

\* cycle limits of a request: ample, short of the first yearly rule only,
\* enough for the fixed charges of quota_transfer only, enough for
\* quota_transfer itself only, nothing
CycleLimits == {10000000, 1155000, 30000, 3000, 1000}

Request(op, payload, ctx, pre, r) ==
    [op |-> op, payload |-> payload, ctx |-> ctx, pre |-> pre,
     resp |-> r.resp, out_ctx |-> r.ctx]

NoRequest == [op |-> "init"]

(***************************************************************************)
(* The transfer quota service with its KYC and timestamp collaborators.    *)
(***************************************************************************)
InitQuota ==
    /\ asset_store = EmptyAssetStore
    /\ \E tagged \in SUBSET QuotaAddrs : kyc_store = KycGenesis(tagged)
    /\ ts_store = TimestampGenesis
    /\ \E config \in QuotaConfigs : quota_store = QuotaGenesis(config)
    /\ riscv_store = EmptyRiscvStore
    /\ last = NoRequest

QuotaPre == [Q |-> quota_store, T |-> ts_store]

QuotaTransfer ==
    \E address \in QuotaAddrs, amount \in U64, limit \in CycleLimits :
        LET payload == [asset_id |-> QuotaAsset, address |-> address, amount |-> amount]
            ctx == Ctx(3, limit, NoExtra)
        IN  \E r \in {quota_transfer(quota_store, kyc_store, ts_store, ctx, payload)} :
            /\ quota_store' = r.store
            /\ last' = Request("quota_transfer", payload, ctx, QuotaPre, r)
            /\ UNCHANGED <<riscv_store, asset_store, kyc_store, ts_store>>

SetTimestampHook ==
    \E timestamp \in Moments :
        /\ ts_store' = set_timestamp_hook(ts_store, timestamp)
        /\ last' = [op |-> "set_timestamp_hook", payload |-> timestamp, pre |-> QuotaPre]
        /\ UNCHANGED <<riscv_store, asset_store, kyc_store, quota_store>>

NextQuota == QuotaTransfer \/ SetTimestampHook

SpecQuota == InitQuota /\ [][NextQuota]_vars

(***************************************************************************)
(* Properties of quota_transfer, stated on the last request.               *)
(***************************************************************************)
IsQuotaTransfer == last.op = "quota_transfer"

ReqConfig == last.pre.Q.asset_config[last.payload.asset_id]

ReqNow == last.pre.T.time

ReqKey == <<last.payload.asset_id, last.payload.address>>

ReqRecord ==
    IF ReqKey \in DOMAIN last.pre.Q.account_record
    THEN last.pre.Q.account_record[ReqKey] ELSE RecordDefault

Buckets == {"SingleBill", "Daily", "Monthly", "Yearly"}

BucketOrder(b) ==
    CASE b = "SingleBill" -> 1 [] b = "Daily" -> 2 [] b = "Monthly" -> 3 [] b = "Yearly" -> 4

BucketRules(b) ==
    CASE b = "SingleBill" -> ReqConfig.single_bill_quota
      [] b = "Daily"      -> ReqConfig.daily_quota_rule
      [] b = "Monthly"    -> ReqConfig.monthly_quota_rule
      [] b = "Yearly"     -> ReqConfig.yearly_quota_rule

RuleMatches(rule) ==
    LET e == evaluate(kyc_store, last.payload.address, rule.kyc_expr)
    IN  e.err = Ok /\ e.value

HasMatch(b) == \E i \in 1..Len(BucketRules(b)) : RuleMatches(BucketRules(b)[i])

MatchedQuota(b) ==
    LET i == CHOOSE k \in 1..Len(BucketRules(b)) :
                 /\ RuleMatches(BucketRules(b)[k])
                 /\ \A j \in 1..(k - 1) : ~RuleMatches(BucketRules(b)[j])
    IN  BucketRules(b)[i].quota

SameYear == civil(ReqRecord.last_op_time).year = civil(ReqNow).year

SameMonth == SameYear /\ civil(ReqRecord.last_op_time).month = civil(ReqNow).month

SameDay == SameMonth /\ civil(ReqRecord.last_op_time).day = civil(ReqNow).day

InWindow(b) ==
    CASE b = "SingleBill" -> FALSE [] b = "Daily" -> SameDay
      [] b = "Monthly" -> SameMonth [] b = "Yearly" -> SameYear

Counter(b) ==
    CASE b = "SingleBill" -> 0 [] b = "Daily" -> ReqRecord.daily_used_amount
      [] b = "Monthly" -> ReqRecord.monthly_used_amount
      [] b = "Yearly" -> ReqRecord.yearly_used_amount

WindowUsed(b) == IF InWindow(b) THEN Counter(b) ELSE 0

Offending(b) == WindowUsed(b) + last.payload.amount > MatchedQuota(b)

FirstOffending ==
    CHOOSE b \in Buckets :
        Offending(b) /\ \A c \in Buckets : BucketOrder(c) < BucketOrder(b) => ~Offending(c)

RECURSIVE RulesCycles(_, _)
RulesCycles(rules, i) ==
    IF i > Len(rules) THEN 0
    ELSE 21000 + 10000 * Len(rules[i].kyc_expr.text) + RulesCycles(rules, i + 1)

\* the cycle limit covers every charge quota_transfer can make under the config
AmpleCycles ==
    last.ctx.cycles_limit >=
        2000 + 2000 + RulesCycles(ReqConfig.single_bill_quota, 1)
        + RulesCycles(ReqConfig.daily_quota_rule, 1)
        + RulesCycles(ReqConfig.monthly_quota_rule, 1)
        + RulesCycles(ReqConfig.yearly_quota_rule, 1)

QuotaDecided ==
    /\ IsQuotaTransfer
    /\ ReqConfig.activated
    /\ \A b \in Buckets : HasMatch(b)
    /\ AmpleCycles

\* C7 (amended): for an activated config and an address matched in every
\* bucket, with a cycle limit that covers the charges, quota_transfer
\* succeeds iff used + amount <= quota of the matched rule in every bucket;
\* otherwise it fails for the first offending bucket in the order SingleBill,
\* Daily, Monthly, Yearly, with QuotaCalcOverflow when used + amount
\* overflows u64 and with QuotaExceed when it does not.
C7_QuotaDecision ==
    QuotaDecided =>
        IF \A b \in Buckets : ~Offending(b) THEN last.resp = Ok
        ELSE last.resp =
                IF WindowUsed(FirstOffending) + last.payload.amount > U64Max
                THEN QuotaCalcOverflow(FirstOffending)
                ELSE QuotaExceed(FirstOffending)

\* C7 witness: a decided request refused for a bucket other than the first
C7_Witness ==
    /\ QuotaDecided
    /\ \E b \in Buckets : Offending(b)
    /\ FirstOffending = "Monthly"
    /\ last.resp = QuotaExceed("Monthly")

\* C7 as stated: every refusal is a QuotaExceed for the first offending bucket
C7_AsStated ==
    QuotaDecided =>
        IF \A b \in Buckets : ~Offending(b) THEN last.resp = Ok
        ELSE last.resp = QuotaExceed(FirstOffending)

StoredRecord == quota_store.account_record[ReqKey]

Rejections(b) == {QuotaExceed(b), QuotaCalcOverflow(b)}

\* C8: after a successful quota_transfer on an activated config the stored
\* record has last_op_time = now and every counter is amount plus the previous
\* counter when the previous last_op_time is in the same UTC day / month /
\* year as now, and amount plus 0 otherwise.
C8_RecordAfterTransfer ==
    (IsQuotaTransfer /\ ReqConfig.activated /\ last.resp = Ok) =>
        /\ ReqKey \in DOMAIN quota_store.account_record
        /\ StoredRecord.last_op_time = ReqNow
        /\ StoredRecord.daily_used_amount =
               last.payload.amount + (IF SameDay THEN ReqRecord.daily_used_amount ELSE 0)
        /\ StoredRecord.monthly_used_amount =
               last.payload.amount + (IF SameMonth THEN ReqRecord.monthly_used_amount ELSE 0)
        /\ StoredRecord.yearly_used_amount =
               last.payload.amount + (IF SameYear THEN ReqRecord.yearly_used_amount ELSE 0)

\* C8 witness: a successful transfer on a later day of the same month, so the
\* daily counter restarts while the monthly counter accumulates
C8_Witness ==
    /\ IsQuotaTransfer /\ ReqConfig.activated /\ last.resp = Ok
    /\ last.payload.amount > 0
    /\ ReqRecord.daily_used_amount > 0
    /\ SameMonth /\ ~SameDay
    /\ StoredRecord.daily_used_amount < StoredRecord.monthly_used_amount

C2_RefusedChargeReturnsOutOfCycles ==
    (/\ IsQuotaTransfer
     /\ ReqConfig.activated
     /\ last.ctx.cycles_limit <
            2000 + 2000 + 21000 + 10000 * Len(ReqConfig.single_bill_quota[1].kyc_expr.text))
        => last.resp = "OutOfCycles"

(***************************************************************************)
(* The KYC service on its own: organisations are registered and approved   *)
(* by the service admin (address 1), user tags are written by the          *)
(* organisation admin (address 2).                                         *)
(***************************************************************************)
KycLimits == {1000000, 45000, 35000, 25000, 10000}

NewOrgs ==
    { [name |-> "Huobi", description |-> "", admin |-> 2,
       supported_tags |-> <<"level", "region">>],
      [name |-> "Huobi", description |-> "b", admin |-> 2, supported_tags |-> <<"level">>] }

TagMaps ==
    { <<>>,
      [t \in {"level"} |-> <<"L1">>],
      [t \in {"level"} |-> <<"L1", "L2">>],
      [t \in {"region"} |-> <<"CN">>],
      [t \in {"level", "region"} |-> IF t = "level" THEN <<"L2">> ELSE <<"CN", "US">>] }

InitKyc ==
    /\ asset_store = EmptyAssetStore
    /\ quota_store = EmptyQuotaStore
    /\ ts_store = TimestampGenesis
    /\ kyc_store = EmptyKycStore
    /\ riscv_store = EmptyRiscvStore
    /\ last = NoRequest

RegisterOrg ==
    \E caller \in {1, 2}, new_org \in NewOrgs, limit \in KycLimits :
        LET ctx == Ctx(caller, limit, NoExtra)
        IN  \E r \in {register_org(kyc_store, ctx, new_org)} :
            /\ kyc_store' = r.store
            /\ last' = Request("register_org", new_org, ctx, kyc_store, r)
            /\ UNCHANGED <<riscv_store, asset_store, quota_store, ts_store>>

ChangeOrgApproved ==
    \E caller \in {1, 2}, org_name \in {"Huobi"}, approved \in BOOLEAN :
        LET payload == [org_name |-> org_name, approved |-> approved]
            ctx == Ctx(caller, 1000000, NoExtra)
        IN  \E r \in {change_org_approved(kyc_store, ctx, payload)} :
            /\ kyc_store' = r.store
            /\ last' = Request("change_org_approved", payload, ctx, kyc_store, r)
            /\ UNCHANGED <<riscv_store, asset_store, quota_store, ts_store>>

UpdateUserTags ==
    \E caller \in {1, 2}, org_name \in {"Huobi"}, tags \in TagMaps,
       limit \in KycLimits :
        \E order \in SetToSeqs(DOMAIN tags) :
            LET payload == [org_name |-> org_name, user |-> 3, tags |-> tags]
                ctx == Ctx(caller, limit, NoExtra)
            IN  \E r \in {update_user_tags(kyc_store, ctx, payload, order)} :
                /\ kyc_store' = r.store
                /\ last' = Request("update_user_tags", payload, ctx, kyc_store, r)
                /\ UNCHANGED <<riscv_store, asset_store, quota_store, ts_store>>

NextKyc == RegisterOrg \/ ChangeOrgApproved \/ UpdateUserTags

SpecKyc == InitKyc /\ [][NextKyc]_vars

\* C3 as stated, for the KYC service: an operation that fails with OutOfCycles
\* leaves the store with exactly the contents it had before the operation
C3_OutOfCyclesLeavesStore ==
    (last.op \in {"register_org", "update_user_tags"} /\ last.resp = "OutOfCycles")
        => kyc_store = last.pre

\* the outcomes update_user_tags has from the store, the context and the
\* payload of the last request: one for each iteration order of the payload's
\* HashMap
UpdateOutcomes ==
    { update_user_tags(last.pre, last.ctx, last.payload, order) :
        order \in SetToSeqs(DOMAIN last.payload.tags) }

\* C26 as stated, for kyc update_user_tags: two executions from an identical
\* store, context and payload produce identical store contents, identical
\* event lists and identical cycles_used
C26_UpdateUserTagsDeterministic ==
    last.op = "update_user_tags" =>
        \A r1 \in UpdateOutcomes, r2 \in UpdateOutcomes :
            /\ r1.store = r2.store
            /\ r1.ctx.events = r2.ctx.events
            /\ r1.ctx.cycles_used = r2.ctx.cycles_used

\* two executions of update_user_tags that meet no cycle shortage differ at
\* most in the stored list of tag names
UpdateOutcomesDifferInNamesOnly ==
    last.op = "update_user_tags" =>
        \A r1 \in UpdateOutcomes, r2 \in UpdateOutcomes :
            r1.resp = Ok =>
                /\ r2.resp = Ok
                /\ r1.store.user_tags = r2.store.user_tags
                /\ r1.store.orgs = r2.store.orgs
                /\ r1.ctx = r2.ctx
                /\ \A k \in DOMAIN r1.store.user_tag_names :
                       SeqRange(r1.store.user_tag_names[k]) = SeqRange(r2.store.user_tag_names[k])

\* an update of a single tag name has one outcome
SingleTagUpdateServed ==
    /\ last.op = "update_user_tags" /\ last.resp = Ok
    /\ Cardinality(DOMAIN last.payload.tags) = 1

\* in store K the tag names indexed for (org, user) are the names that have
\* a stored list of values for (org, user)
IndexMatchesValues(K) ==
    /\ \A k \in DOMAIN K.user_tag_names :
           \A i \in 1..Len(K.user_tag_names[k]) :
               <<k[1], k[2], K.user_tag_names[k][i]>> \in DOMAIN K.user_tags
    /\ \A v \in DOMAIN K.user_tags :
           /\ <<v[1], v[2]>> \in DOMAIN K.user_tag_names
           /\ v[3] \in SeqRange(K.user_tag_names[<<v[1], v[2]>>])

\* C38 as stated: in every state reached by update_user_tags calls,
\* successful or failing, for each (org, user) the set of tag names in the
\* tag-name index equals the set of tag names that have a stored list of
\* values
C38_IndexMatchesValues == IndexMatchesValues(kyc_store)

\* an update that succeeds on a store whose index matches leaves it matching,
\* the values of the dropped names being removed
ServedUpdateKeepsIndex ==
    (last.op = "update_user_tags" /\ last.resp = Ok /\ IndexMatchesValues(last.pre)) =>
        IndexMatchesValues(kyc_store)

\* an update that succeeded dropped a name and its values
UpdateDroppedName ==
    /\ last.op = "update_user_tags" /\ last.resp = Ok
    /\ IndexMatchesValues(last.pre)
    /\ \E v \in DOMAIN last.pre.user_tags : v \notin DOMAIN kyc_store.user_tags

(***************************************************************************)
(* The asset service with its transfer quota collaborator.  Address 1      *)
(* creates and administers assets, addresses 1 and 2 hold balances and     *)
(* address 3 spends allowances.                                            *)
(***************************************************************************)
MaxAssets == 1

Holders == {1, 2}

Issuer(addr, balance) == [addr |-> addr, balance |-> balance]

MintLists ==
    { <<Issuer(1, 1), Issuer(2, 1)>>,
      <<Issuer(1, 1), Issuer(1, U64Max - 1)>>,
      <<Issuer(1, 0)>>,
      <<Issuer(ZeroAddr, 2)>>,
      <<Issuer(1, U64Max), Issuer(2, 1)>> }

AssetLimits == {100000, 22000, 1000}

\* the <<extra, cycle limit>> of the contexts a transfer is tried with
TransferContexts ==
    {<<NoExtra, limit>> : limit \in AssetLimits} \cup {<<"0x02", 100000>>, <<"zz", 100000>>}

AssetPre == [A |-> asset_store, Q |-> quota_store]

AssetRequest(op, payload, ctx, r) ==
    [op |-> op, payload |-> payload, ctx |-> ctx, pre |-> AssetPre,
     resp |-> r.resp, out_ctx |-> r.ctx, quota_extra |-> r.quota_extra]

InitAsset ==
    /\ asset_store = EmptyAssetStore
    /\ quota_store = EmptyQuotaStore
    /\ kyc_store = EmptyKycStore
    /\ ts_store = TimestampGenesis
    /\ riscv_store = EmptyRiscvStore
    /\ last = NoRequest

CreateAsset ==
    /\ Cardinality(DOMAIN asset_store.assets) < MaxAssets
    /\ \E supply \in {0, 2, U64Max}, init_mints \in MintLists, limit \in AssetLimits :
        LET payload == [supply |-> supply, admin |-> 1, init_mints |-> init_mints,
                        relayable |-> FALSE]
            ctx == Ctx(1, limit, NoExtra)
        IN  \E r \in {create_asset(asset_store, quota_store, ctx, payload)} :
            /\ asset_store' = r.store
            /\ quota_store' = r.quota
            /\ last' = AssetRequest("create_asset", payload, ctx, r)
            /\ UNCHANGED <<riscv_store, kyc_store, ts_store>>

Transfer ==
    \E asset_id \in DOMAIN asset_store.assets, caller \in Holders, to \in Holders,
       value \in U64, c \in TransferContexts :
        LET payload == [asset_id |-> asset_id, to |-> to, value |-> value]
            ctx == Ctx(caller, c[2], c[1])
        IN  \E r \in {transfer(asset_store, quota_store, kyc_store, ts_store, ctx, payload)} :
            /\ asset_store' = r.store
            /\ quota_store' = r.quota
            /\ last' = AssetRequest("transfer", payload, ctx, r)
            /\ UNCHANGED <<riscv_store, kyc_store, ts_store>>

Approve ==
    \E asset_id \in DOMAIN asset_store.assets, caller \in {1, 3}, value \in {0, 1, U64Max - 1} :
        LET payload == [asset_id |-> asset_id, to |-> 3, value |-> value]
            ctx == Ctx(caller, 100000, NoExtra)
        IN  \E r \in {approve(asset_store, quota_store, ctx, payload)} :
            /\ asset_store' = r.store
            /\ quota_store' = r.quota
            /\ last' = AssetRequest("approve", payload, ctx, r)
            /\ UNCHANGED <<riscv_store, kyc_store, ts_store>>

TransferFrom ==
    \E asset_id \in DOMAIN asset_store.assets, sender \in Holders, recipient \in Holders,
       value \in U64 :
        LET payload == [asset_id |-> asset_id, sender |-> sender,
                        recipient |-> recipient, value |-> value]
            ctx == Ctx(3, 100000, NoExtra)
        IN  \E r \in {transfer_from(asset_store, quota_store, kyc_store, ts_store, ctx, payload)} :
            /\ asset_store' = r.store
            /\ quota_store' = r.quota
            /\ last' = AssetRequest("transfer_from", payload, ctx, r)
            /\ UNCHANGED <<riscv_store, kyc_store, ts_store>>

Mint ==
    \E asset_id \in DOMAIN asset_store.assets, caller \in Holders, to \in Holders,
       amount \in U64 :
        LET payload == [asset_id |-> asset_id, to |-> to, amount |-> amount]
            ctx == Ctx(caller, 100000, NoExtra)
        IN  \E r \in {mint(asset_store, quota_store, ctx, payload)} :
            /\ asset_store' = r.store
            /\ quota_store' = r.quota
            /\ last' = AssetRequest("mint", payload, ctx, r)
            /\ UNCHANGED <<riscv_store, kyc_store, ts_store>>

Burn ==
    \E asset_id \in DOMAIN asset_store.assets, caller \in Holders, amount \in U64 :
        LET payload == [asset_id |-> asset_id, amount |-> amount]
            ctx == Ctx(caller, 100000, NoExtra)
        IN  \E r \in {burn(asset_store, quota_store, ctx, payload)} :
            /\ asset_store' = r.store
            /\ quota_store' = r.quota
            /\ last' = AssetRequest("burn", payload, ctx, r)
            /\ UNCHANGED <<riscv_store, kyc_store, ts_store>>

NextAsset == CreateAsset \/ Transfer \/ Approve \/ TransferFrom \/ Mint \/ Burn

SpecAsset == InitAsset /\ [][NextAsset]_vars

RECURSIVE SumBalances(_, _)
SumBalances(asset_id, keys) ==
    IF keys = {} THEN 0
    ELSE LET k == CHOOSE x \in keys : TRUE
         IN  (IF k[2] = asset_id THEN asset_store.balances[k].value ELSE 0)
             + SumBalances(asset_id, keys \ {k})

\* C1 as stated: for every asset the balances of all accounts sum to the
\* asset's supply
C1_BalancesSumToSupply ==
    \A asset_id \in DOMAIN asset_store.assets :
        SumBalances(asset_id, DOMAIN asset_store.balances) = asset_store.assets[asset_id].supply

PreAsset == last.pre.A.assets[last.payload.asset_id]

PostAsset == asset_store.assets[last.payload.asset_id]

PreBalance(account) ==
    IF <<account, last.payload.asset_id>> \in DOMAIN last.pre.A.balances
    THEN last.pre.A.balances[<<account, last.payload.asset_id>>].value ELSE 0

PostBalance(account) == asset_store.balances[<<account, last.payload.asset_id>>].value

OtherBalancesKept(account) ==
    \A k \in DOMAIN asset_store.balances :
        k # <<account, last.payload.asset_id>> =>
            k \in DOMAIN last.pre.A.balances /\ asset_store.balances[k] = last.pre.A.balances[k]

\* the balance values of the store A, 0 for an account without a record
BalanceValues(A) ==
    [k \in (Addrs \cup {ZeroAddr}) \X (DOMAIN A.assets) |-> asset_balance(A, k[1], k[2]).value]

\* every _transfer the ledger could be asked for in the store A either moves
\* the value or fails with the store as it was
TransferIsAllOrNothing(A) ==
    \A asset_id \in DOMAIN A.assets, sender \in Addrs, recipient \in Addrs, value \in U64 :
        \E t \in {_transfer(A, sender, recipient, asset_id, value)} :
            /\ t.err # "BalanceOverflow"
            /\ t.err # Ok => t.store = A

\* C33: a transfer or transfer_from answered with an error leaves every
\* balance value as it was, and in every state of the ledger no _transfer can
\* fail on the recipient's addition after it debited the sender.
C33_FailedTransferKeepsBalances ==
    /\ (last.op \in {"transfer", "transfer_from"} /\ last.resp # Ok) =>
           BalanceValues(asset_store) = BalanceValues(last.pre.A)
    /\ TransferIsAllOrNothing(asset_store)

\* C33 witness: a transfer refused for lack of balance while the recipient
\* holds all but one unit of u64::MAX
C33_Witness ==
    /\ last.op = "transfer" /\ last.resp # Ok
    /\ TransferPayload_verify(last.payload) = Ok
    /\ last.ctx.extra = NoExtra
    /\ last.ctx.caller # last.payload.to
    /\ PreBalance(last.payload.to) >= U64Max - 1
    /\ PreBalance(last.ctx.caller) < last.payload.value

\* a served transfer that filled the recipient up to u64::MAX
TransferFilledRecipient ==
    /\ last.op = "transfer" /\ last.resp = Ok
    /\ last.ctx.extra = NoExtra
    /\ last.ctx.caller # last.payload.to
    /\ PostBalance(last.payload.to) = U64Max

\* an authorised mint or burn of a positive amount on an existing asset
MintRuns ==
    /\ last.op = "mint" /\ last.payload.amount > 0
    /\ last.payload.asset_id \in DOMAIN last.pre.A.assets
    /\ PreAsset.admin = last.ctx.caller

BurnRuns ==
    /\ last.op = "burn" /\ last.payload.amount > 0
    /\ last.payload.asset_id \in DOMAIN last.pre.A.assets

\* C10: a successful mint(to, n) raises the supply and the recipient balance
\* by exactly n, a successful burn(n) lowers the supply and the caller's
\* balance by exactly n, and a mint or burn whose balance or supply arithmetic
\* leaves the u64 range returns BalanceOverflow with the supply and every
\* balance unchanged.
C10_MintBurnExact ==
    /\ (last.op = "mint" /\ last.resp = Ok) =>
           /\ PostAsset.supply = PreAsset.supply + last.payload.amount
           /\ PostBalance(last.payload.to) = PreBalance(last.payload.to) + last.payload.amount
           /\ OtherBalancesKept(last.payload.to)
    /\ (last.op = "burn" /\ last.resp = Ok) =>
           /\ PostAsset.supply = PreAsset.supply - last.payload.amount
           /\ PostBalance(last.ctx.caller) = PreBalance(last.ctx.caller) - last.payload.amount
           /\ OtherBalancesKept(last.ctx.caller)
    /\ (MintRuns /\ (\/ PreBalance(last.payload.to) + last.payload.amount > U64Max
                     \/ PreAsset.supply + last.payload.amount > U64Max)) =>
           last.resp = "BalanceOverflow" /\ asset_store = last.pre.A
    /\ (BurnRuns /\ (\/ PreBalance(last.ctx.caller) < last.payload.amount
                     \/ PreAsset.supply < last.payload.amount)) =>
           last.resp = "BalanceOverflow" /\ asset_store = last.pre.A

\* C10 witness: a mint refused because the supply, not the recipient balance,
\* would overflow
C10_Witness ==
    /\ MintRuns
    /\ PreBalance(last.payload.to) + last.payload.amount <= U64Max
    /\ PreAsset.supply + last.payload.amount > U64Max
    /\ last.resp = "BalanceOverflow"

PreAllowance(owner, spender) ==
    allowance(asset_balance(last.pre.A, owner, last.payload.asset_id), spender)

PostAllowance(owner, spender) ==
    allowance(asset_balance(asset_store, owner, last.payload.asset_id), spender)

\* the spender of a transfer_from: the caller, or the address in ctx.extra
Spender == extra_caller(last.ctx).addr

\* a transfer_from that passes the checks before the allowance is read: the
\* cycle charge, the payload's verify, the asset lookup and extra_caller
TransferFromEntered ==
    /\ last.op = "transfer_from"
    /\ cycles_attr_ok(last.ctx, 21000)
    /\ TransferFromPayload_verify(last.payload) = Ok
    /\ last.payload.asset_id \in DOMAIN last.pre.A.assets
    /\ extra_caller(last.ctx).err = Ok

\* C11: after approve(owner -> spender, v) succeeds, get_allowance(owner,
\* spender) returns exactly v whatever the allowance was before, and a
\* transfer_from that reaches the allowance check with a value greater than
\* the spender's allowance fails with LackOfBalance{expect: value, real:
\* allowance}.
C11_ApproveOverwrites ==
    /\ (last.op = "approve" /\ last.resp = Ok) =>
           \A c \in Addrs :
               \E g \in {get_allowance(asset_store, Ctx(c, 10000, NoExtra),
                              [asset_id |-> last.payload.asset_id,
                               grantor |-> last.ctx.caller,
                               grantee |-> last.payload.to])} :
                   g.err = Ok /\ g.value = last.payload.value
    /\ (TransferFromEntered /\ last.payload.value > PreAllowance(last.payload.sender, Spender))
           => last.resp = LackOfBalance(last.payload.value,
                                        PreAllowance(last.payload.sender, Spender))

\* C11 witness: an approve over an earlier allowance that was neither zero
\* nor the new value
C11_Witness ==
    /\ last.op = "approve" /\ last.resp = Ok
    /\ PreAllowance(last.ctx.caller, last.payload.to) > 0
    /\ PreAllowance(last.ctx.caller, last.payload.to) # last.payload.value
    /\ PostAllowance(last.ctx.caller, last.payload.to) = last.payload.value

\* the allowance entries of the store A: <<owner, asset id, spender>>
AllowanceEntries(A) ==
    { <<k[1], k[2], s>> : k \in DOMAIN A.balances, s \in Addrs \cup {ZeroAddr} }
        \cap { e \in (Addrs \cup {ZeroAddr}) \X (DOMAIN A.assets) \X (Addrs \cup {ZeroAddr}) :
                 /\ <<e[1], e[2]>> \in DOMAIN A.balances
                 /\ e[3] \in DOMAIN A.balances[<<e[1], e[2]>>].allowance }

\* the value stored in the entry e
EntryValue(A, e) == A.balances[<<e[1], e[2]>>].allowance[e[3]]

\* C39: an allowance entry (owner, spender, asset) that exists is kept by
\* every request; a transfer_from that is served for the whole allowance
\* leaves the entry with 0 in it, and an approve over an existing entry
\* leaves the provided value in it, not the sum with the earlier value.
C39_AllowanceEntriesStay ==
    /\ last # NoRequest => AllowanceEntries(last.pre.A) \subseteq AllowanceEntries(asset_store)
    /\ (/\ last.op = "transfer_from" /\ last.resp = Ok
        /\ last.payload.value = PreAllowance(last.payload.sender, Spender)) =>
           /\ <<last.payload.sender, last.payload.asset_id, Spender>>
                  \in AllowanceEntries(asset_store)
           /\ EntryValue(asset_store, <<last.payload.sender, last.payload.asset_id, Spender>>) = 0
    /\ (/\ last.op = "approve" /\ last.resp = Ok
        /\ <<last.ctx.caller, last.payload.asset_id, last.payload.to>>
               \in AllowanceEntries(last.pre.A)) =>
           EntryValue(asset_store, <<last.ctx.caller, last.payload.asset_id, last.payload.to>>)
               = last.payload.value

\* C39 witness: a transfer_from served for the whole of an allowance
C39_Witness ==
    /\ last.op = "transfer_from" /\ last.resp = Ok
    /\ last.payload.sender # last.payload.recipient
    /\ last.payload.value = PreAllowance(last.payload.sender, Spender)
    /\ <<last.payload.sender, last.payload.asset_id, Spender>> \in AllowanceEntries(asset_store)
    /\ EntryValue(asset_store, <<last.payload.sender, last.payload.asset_id, Spender>>) = 0

\* an approve that put a smaller value over an entry that was not 0
ReapprovalLowered ==
    /\ last.op = "approve" /\ last.resp = Ok
    /\ <<last.ctx.caller, last.payload.asset_id, last.payload.to>> \in AllowanceEntries(last.pre.A)
    /\ 0 < last.payload.value
    /\ last.payload.value < PreAllowance(last.ctx.caller, last.payload.to)

\* the accounts other than sender and recipient keep their balance records,
\* and sender and recipient keep every allowance but the spender's on sender
OtherRecordsKept(sender, recipient, spender) ==
    /\ \A k \in (DOMAIN asset_store.balances) \cup (DOMAIN last.pre.A.balances) :
           (k # <<sender, last.payload.asset_id>> /\ k # <<recipient, last.payload.asset_id>>)
               => /\ k \in DOMAIN asset_store.balances
                  /\ k \in DOMAIN last.pre.A.balances
                  /\ asset_store.balances[k] = last.pre.A.balances[k]
    /\ \A s \in Addrs \cup {ZeroAddr} :
           /\ s # spender => PostAllowance(sender, s) = PreAllowance(sender, s)
           /\ PostAllowance(recipient, s) = PreAllowance(recipient, s)

\* C12: a successful transfer_from(sender, recipient, value) by a spender,
\* with sender # recipient, lowers allowance(sender, spender) and the sender's
\* balance by exactly value, raises the recipient's balance by value and
\* leaves every other balance, every other allowance and the assets with
\* their supply unchanged.
C12_TransferFromFrame ==
    (/\ last.op = "transfer_from" /\ last.resp = Ok
     /\ last.payload.sender # last.payload.recipient) =>
        /\ PostAllowance(last.payload.sender, Spender)
               = PreAllowance(last.payload.sender, Spender) - last.payload.value
        /\ PostBalance(last.payload.sender)
               = PreBalance(last.payload.sender) - last.payload.value
        /\ PostBalance(last.payload.recipient)
               = PreBalance(last.payload.recipient) + last.payload.value
        /\ OtherRecordsKept(last.payload.sender, last.payload.recipient, Spender)
        /\ asset_store.assets = last.pre.A.assets

\* C12 witness: a transfer_from that spends a part of the allowance towards
\* a recipient that already holds a balance
C12_Witness ==
    /\ last.op = "transfer_from" /\ last.resp = Ok
    /\ last.payload.sender # last.payload.recipient
    /\ PreAllowance(last.payload.sender, Spender) > last.payload.value
    /\ PreBalance(last.payload.recipient) > 0
    /\ PostBalance(last.payload.recipient) > PreBalance(last.payload.recipient)

\* a transfer_from whose allowance suffices and whose sender holds less than
\* the value: it fails at the balance check of _transfer
FailsAtBalanceCheck ==
    /\ TransferFromEntered
    /\ last.payload.sender # last.payload.recipient
    /\ PreAllowance(last.payload.sender, Spender) >= last.payload.value
    /\ PreBalance(last.payload.sender) < last.payload.value
    /\ last.resp = LackOfBalance(last.payload.value, PreBalance(last.payload.sender))

\* C30: a transfer_from that returns LackOfBalance from the balance check,
\* the allowance being sufficient, leaves allowance(sender, spender) and
\* every balance exactly as they were before the operation.
C30_FailedTransferFromKeepsRecords ==
    FailsAtBalanceCheck => asset_store.balances = last.pre.A.balances

\* what such a transfer_from leaves behind: the values as before and the
\* spender's allowance lowered by the value
FailedTransferFromSpendsAllowance ==
    FailsAtBalanceCheck =>
        /\ \A a \in Addrs :
               asset_balance(asset_store, a, last.payload.asset_id).value
                   = asset_balance(last.pre.A, a, last.payload.asset_id).value
        /\ PostAllowance(last.payload.sender, Spender)
               = PreAllowance(last.payload.sender, Spender) - last.payload.value

\* the last request made its handler hand a context to the quota engine
QuotaEngineCalled ==
    /\ last.op \in {"transfer", "transfer_from", "create_asset"}
    /\ last.quota_extra # QuotaNotCalled

\* C17: in transfer, transfer_from and create_asset the context handed to
\* the quota engine is a clone whose extra equals "asset_service", whatever
\* extra the incoming context carried.
C17_QuotaContextCarriesToken ==
    QuotaEngineCalled => last.quota_extra = TRANSFER_QUOTA_TOKEN

\* create_asset hands the token to the quota engine
CreateAssetHandsToken ==
    (QuotaEngineCalled /\ last.op = "create_asset") => last.quota_extra = TRANSFER_QUOTA_TOKEN

\* transfer and transfer_from hand on the extra they were called with
TransfersHandOnExtra ==
    (QuotaEngineCalled /\ last.op # "create_asset") => last.quota_extra = last.ctx.extra

(***************************************************************************)
(* The ledger after genesis: the native asset is held by addresses 1 and 2 *)
(* and its transfers are bounded by an activated quota config whose single *)
(* bill quota is 1; address 3 spends allowances and sends the requests     *)
(* that arrive with an extra.                                              *)
(***************************************************************************)
LedgerGenesisPayload ==
    [id |-> QuotaAsset, supply |-> U64Max, admin |-> 1, relayable |-> FALSE,
     init_mints |-> <<Issuer(1, U64Max - 1), Issuer(2, 1)>>]

LedgerQuotaConfig == QuotaConfig(TRUE, <<1, U64Max, U64Max, U64Max>>, TRUE)

\* enough for the transfer and every rule of the quota check
LedgerLimits == {10000000}

InitLedger ==
    /\ asset_store = init_genesis(EmptyAssetStore, LedgerGenesisPayload)
    /\ quota_store = QuotaGenesis(LedgerQuotaConfig)
    /\ kyc_store = KycGenesis({})
    /\ ts_store = TimestampGenesis
    /\ riscv_store = EmptyRiscvStore
    /\ last = NoRequest

LedgerTransfer ==
    \E caller \in Holders, to \in Holders, value \in {1, 2}, limit \in LedgerLimits :
        LET payload == [asset_id |-> QuotaAsset, to |-> to, value |-> value]
            ctx == Ctx(caller, limit, NoExtra)
        IN  \E r \in {transfer(asset_store, quota_store, kyc_store, ts_store, ctx, payload)} :
            /\ asset_store' = r.store
            /\ quota_store' = r.quota
            /\ last' = AssetRequest("transfer", payload, ctx, r)
            /\ UNCHANGED <<riscv_store, kyc_store, ts_store>>

LedgerTransferFrom ==
    \E sender \in Holders, recipient \in Holders, value \in {1, 2}, limit \in LedgerLimits :
        LET payload == [asset_id |-> QuotaAsset, sender |-> sender,
                        recipient |-> recipient, value |-> value]
            ctx == Ctx(3, limit, NoExtra)
        IN  \E r \in {transfer_from(asset_store, quota_store, kyc_store, ts_store, ctx, payload)} :
            /\ asset_store' = r.store
            /\ quota_store' = r.quota
            /\ last' = AssetRequest("transfer_from", payload, ctx, r)
            /\ UNCHANGED <<riscv_store, kyc_store, ts_store>>

HookTransferFrom ==
    \E sender \in Holders, recipient \in Holders, value \in {0, 1},
       extra \in {NoExtra, "governance", "0x02"}, limit \in LedgerLimits :
        LET payload == [sender |-> sender, recipient |-> recipient, value |-> value]
            ctx == Ctx(3, limit, extra)
        IN  \E r \in {hook_transfer_from(asset_store, quota_store, ctx, payload)} :
            /\ asset_store' = r.store
            /\ quota_store' = r.quota
            /\ last' = AssetRequest("hook_transfer_from", payload, ctx, r)
            /\ UNCHANGED <<riscv_store, kyc_store, ts_store>>

CreateAssetConfig ==
    \E asset_id \in {QuotaAsset, 2}, extra \in {TRANSFER_QUOTA_TOKEN, NoExtra, "governance"},
       limit \in LedgerLimits :
        LET payload == [asset_id |-> asset_id, admin |-> 2]
            ctx == Ctx(3, limit, extra)
        IN  \E r \in {create_asset_config(quota_store, ctx, payload)} :
            /\ quota_store' = r.store
            /\ last' = Request("create_asset_config", payload, ctx, QuotaPre, r)
            /\ UNCHANGED <<riscv_store, asset_store, kyc_store, ts_store>>

NextLedger ==
    LedgerTransfer \/ Approve \/ LedgerTransferFrom \/ HookTransferFrom \/ CreateAssetConfig

SpecLedger == InitLedger /\ [][NextLedger]_vars

\* the quota engine rejected the last transfer or transfer_from
QuotaRejected ==
    /\ last.op \in {"transfer", "transfer_from"}
    /\ last.resp = "TransferQuota"

\* C16: when the quota engine rejects, transfer and transfer_from return an
\* error before any asset balance record is written: no value and no
\* allowance entry differs from before the request.
C16_RejectedWritesNothing ==
    QuotaRejected => asset_store.balances = last.pre.A.balances

\* a transfer the quota engine rejected left the balance records alone
RejectedTransferWritesNothing ==
    (QuotaRejected /\ last.op = "transfer") => asset_store.balances = last.pre.A.balances

\* C18: quota_transfer is privileged: a request that does not present the
\* asset service's token and does not come from the ledger's internal path is
\* rejected with NotAuthorized and changes no quota record.
C18_QuotaTransferPrivileged ==
    (IsQuotaTransfer /\ last.ctx.extra # TRANSFER_QUOTA_TOKEN) =>
        /\ last.resp = "NotAuthorized"
        /\ quota_store.account_record = last.pre.Q.account_record

\* a quota_transfer request without the token that was served and wrote the
\* record of the address it names
UnprivilegedQuotaTransferServed ==
    /\ IsQuotaTransfer /\ last.ctx.extra = NoExtra /\ last.resp = Ok
    /\ quota_store.account_record # last.pre.Q.account_record

IsCreateAssetConfig == last.op = "create_asset_config"

\* the config create_asset_config inserts
NewConfig ==
    [admin |-> last.payload.admin, activated |-> FALSE,
     single_bill_quota |-> <<>>, daily_quota_rule |-> <<>>,
     monthly_quota_rule |-> <<>>, yearly_quota_rule |-> <<>>]

\* C19: create_asset_config inserts a new, deactivated config with empty rule
\* lists only when the context's extra is the asset service's token and the
\* asset has no config yet; otherwise it answers NotAuthorized or
\* AssetConfigExist and leaves the existing configs unchanged.
C19_CreateAssetConfigGuarded ==
    IsCreateAssetConfig =>
        IF last.ctx.extra # TRANSFER_QUOTA_TOKEN
        THEN last.resp = "NotAuthorized" /\ quota_store = last.pre.Q
        ELSE IF last.payload.asset_id \in DOMAIN last.pre.Q.asset_config
        THEN last.resp = "AssetConfigExist" /\ quota_store = last.pre.Q
        ELSE /\ last.resp = Ok
             /\ quota_store.asset_config =
                    MapInsert(last.pre.Q.asset_config, last.payload.asset_id, NewConfig)
             /\ \A a \in DOMAIN last.pre.Q.asset_config :
                    quota_store.asset_config[a] = last.pre.Q.asset_config[a]
             /\ quota_store.account_record = last.pre.Q.account_record

\* C19 witness: a config was inserted next to the one of genesis, which is
\* still activated
C19_Witness ==
    /\ IsCreateAssetConfig /\ last.resp = Ok
    /\ last.payload.asset_id \notin DOMAIN last.pre.Q.asset_config
    /\ DOMAIN quota_store.asset_config = {QuotaAsset, last.payload.asset_id}
    /\ quota_store.asset_config[QuotaAsset].activated
    /\ ~quota_store.asset_config[last.payload.asset_id].activated

\* a request for an asset that has a config, with the token, is refused
ExistingConfigRefused ==
    /\ IsCreateAssetConfig /\ last.ctx.extra = TRANSFER_QUOTA_TOKEN
    /\ last.resp = "AssetConfigExist"

IsHook == last.op = "hook_transfer_from"

\* C20: hook_transfer_from takes the privileged path if and only if the
\* context's extra is "governance"; with a missing or a different extra no
\* balance is changed.
C20_HookNeedsGovernance ==
    (IsHook /\ last.ctx.extra # "governance") =>
        /\ last.resp # Ok
        /\ asset_store.balances = last.pre.A.balances

\* a different extra is refused and nothing moves
HookRefusesOtherExtra ==
    (IsHook /\ last.ctx.extra \notin {NoExtra, "governance"} /\ last.payload.value # 0) =>
        /\ last.resp = "Unauthorized"
        /\ asset_store.balances = last.pre.A.balances

\* a request without any extra moved the native asset
HookMovedWithoutExtra ==
    /\ IsHook /\ last.ctx.extra = NoExtra /\ last.resp = Ok
    /\ asset_store.balances # last.pre.A.balances

\* C27 as stated, for a request of the riscv service: the events of the
\* context are those the operations of the request emitted, in the order of
\* emission (here the BurnAsset of each burn the bridge served), and a
\* request that returns an error appended no event
C27_EventsOrderedNoneOnError ==
    last.op # "init" =>
        /\ \A i \in DOMAIN last.out_ctx.events :
               last.out_ctx.events[i] = [service |-> "asset", name |-> "BurnAsset"]
        /\ last.resp # Ok => last.out_ctx.events = <<>>

\* a request of the riscv service that succeeds carries the events of the
\* burns it made through the bridge
ServedRunCarriesBurnEvent ==
    /\ last.op = "exec" /\ last.resp = Ok
    /\ last.out_ctx.events = <<[service |-> "asset", name |-> "BurnAsset"]>>

(***************************************************************************)
(* The ledger's write operations under a context that carries extra bytes: *)
(* a relayable native asset held by addresses 1 and 2, no transfer quota   *)
(* service, and requests whose extra is absent, the hex of an address or   *)
(* bytes that are no address.                                              *)
(***************************************************************************)
RelayGenesisPayload ==
    [id |-> QuotaAsset, supply |-> U64Max, admin |-> 1, relayable |-> TRUE,
     init_mints |-> <<Issuer(1, U64Max - 1), Issuer(2, 1)>>]

Extras == {NoExtra, "0x01", "0x02", "zz"}

\* ample; enough for relay's own charge and not for the one of its burn
RelayLimits == {100000, 30000}

RelayAssets == {QuotaAsset}

InitRelay ==
    /\ asset_store = init_genesis([EmptyAssetStore EXCEPT !.transfer_quota_service = FALSE],
                                  RelayGenesisPayload)
    /\ quota_store = EmptyQuotaStore
    /\ kyc_store = EmptyKycStore
    /\ ts_store = TimestampGenesis
    /\ riscv_store = EmptyRiscvStore
    /\ last = NoRequest

TransferAs ==
    \E asset_id \in RelayAssets, caller \in Holders, to \in Addrs, value \in {1},
       extra \in Extras, limit \in {100000} :
        LET payload == [asset_id |-> asset_id, to |-> to, value |-> value]
            ctx == Ctx(caller, limit, extra)
        IN  \E r \in {transfer(asset_store, quota_store, kyc_store, ts_store, ctx, payload)} :
            /\ asset_store' = r.store
            /\ quota_store' = r.quota
            /\ last' = AssetRequest("transfer", payload, ctx, r)
            /\ UNCHANGED <<riscv_store, kyc_store, ts_store>>

TransferFromAs ==
    \E asset_id \in RelayAssets, caller \in Holders, sender \in Holders, value \in {1},
       extra \in Extras, limit \in {100000} :
        LET payload == [asset_id |-> asset_id, sender |-> sender, recipient |-> 3,
                        value |-> value]
            ctx == Ctx(caller, limit, extra)
        IN  \E r \in {transfer_from(asset_store, quota_store, kyc_store, ts_store, ctx,
                                    payload)} :
            /\ asset_store' = r.store
            /\ quota_store' = r.quota
            /\ last' = AssetRequest("transfer_from", payload, ctx, r)
            /\ UNCHANGED <<riscv_store, kyc_store, ts_store>>

ApproveAs ==
    \E asset_id \in RelayAssets, caller \in Holders, to \in Holders, value \in {1},
       extra \in Extras, limit \in {100000} :
        LET payload == [asset_id |-> asset_id, to |-> to, value |-> value]
            ctx == Ctx(caller, limit, extra)
        IN  \E r \in {approve(asset_store, quota_store, ctx, payload)} :
            /\ asset_store' = r.store
            /\ quota_store' = r.quota
            /\ last' = AssetRequest("approve", payload, ctx, r)
            /\ UNCHANGED <<riscv_store, kyc_store, ts_store>>

BurnAs ==
    \E asset_id \in RelayAssets, caller \in Holders, amount \in {1},
       extra \in Extras, limit \in {100000} :
        LET payload == [asset_id |-> asset_id, amount |-> amount]
            ctx == Ctx(caller, limit, extra)
        IN  \E r \in {burn(asset_store, quota_store, ctx, payload)} :
            /\ asset_store' = r.store
            /\ quota_store' = r.quota
            /\ last' = AssetRequest("burn", payload, ctx, r)
            /\ UNCHANGED <<riscv_store, kyc_store, ts_store>>

RelayAs ==
    \E asset_id \in RelayAssets, caller \in Holders, amount \in {1},
       extra \in Extras, limit \in RelayLimits :
        LET payload == [asset_id |-> asset_id, amount |-> amount]
            ctx == Ctx(caller, limit, extra)
        IN  \E r \in {relay(asset_store, quota_store, ctx, payload)} :
            /\ asset_store' = r.store
            /\ quota_store' = r.quota
            /\ last' = AssetRequest("relay", payload, ctx, r)
            /\ UNCHANGED <<riscv_store, kyc_store, ts_store>>

NextRelay == TransferAs \/ TransferFromAs \/ ApproveAs \/ BurnAs \/ RelayAs

SpecRelay == InitRelay /\ [][NextRelay]_vars

\* the write operation op of the ledger on store A under context ctx
ledger_write(op, A, ctx, payload) ==
    CASE op = "transfer" -> transfer(A, EmptyQuotaStore, EmptyKycStore, TimestampGenesis, ctx,
                                     payload)
      [] op = "transfer_from" -> transfer_from(A, EmptyQuotaStore, EmptyKycStore,
                                               TimestampGenesis, ctx, payload)
      [] op = "approve" -> approve(A, EmptyQuotaStore, ctx, payload)
      [] op = "burn" -> burn(A, EmptyQuotaStore, ctx, payload)
      [] op = "relay" -> relay(A, EmptyQuotaStore, ctx, payload)

\* the last request is a write of the ledger that passed the charge, the
\* verification of its payload and the lookup of its asset
ReachesSender ==
    /\ last.op \in {"transfer", "transfer_from", "approve", "burn", "relay"}
    /\ last.resp \notin {"OutOfCycles", "MeaningLessValue", "AssetNotFound"}

\* the context of the last request with the extra's address as its caller
AsExtraAddress ==
    [last.ctx EXCEPT !.caller = from_hex(last.ctx.extra).addr, !.extra = NoExtra]

\* C21 as stated: when ctx.extra is present and parses as a hex address, the
\* write operations of the ledger (transfer, transfer_from, approve, burn,
\* relay) act with that address as the effective sender; when it is present
\* and does not parse they fail with NotHexCaller and change nothing; when it
\* is absent they act as ctx.caller.
C21_ExtraIsEffectiveSender ==
    (ReachesSender /\ last.ctx.extra # NoExtra) =>
        IF from_hex(last.ctx.extra).ok
        THEN asset_store = ledger_write(last.op, last.pre.A, AsExtraAddress, last.payload).store
        ELSE last.resp = "NotHexCaller" /\ asset_store = last.pre.A

\* transfer and transfer_from do act for the address of the extra
TransfersActForExtra ==
    (ReachesSender /\ last.ctx.extra # NoExtra /\ last.op \in {"transfer", "transfer_from"}) =>
        IF from_hex(last.ctx.extra).ok
        THEN asset_store = ledger_write(last.op, last.pre.A, AsExtraAddress, last.payload).store
        ELSE last.resp = "NotHexCaller" /\ asset_store = last.pre.A

\* approve, burn and relay act for ctx.caller whatever the extra
OthersIgnoreExtra ==
    (last.op \in {"approve", "burn", "relay"}) =>
        /\ asset_store = ledger_write(last.op, last.pre.A, [last.ctx EXCEPT !.extra = NoExtra],
                                      last.payload).store
        /\ last.resp # "NotHexCaller"

\* a burn under the extra of address 1 took the amount from the caller 2
BurnTakesFromCaller ==
    /\ last.op = "burn" /\ last.resp = Ok
    /\ last.ctx.caller = 2 /\ last.ctx.extra = "0x01"
    /\ asset_balance(asset_store, 2, QuotaAsset).value
          < asset_balance(last.pre.A, 2, QuotaAsset).value
    /\ asset_balance(asset_store, 1, QuotaAsset).value
          = asset_balance(last.pre.A, 1, QuotaAsset).value

\* within the asset service a relay that succeeds appended BurnAsset and then
\* RelayAsset, and a request that fails appended nothing
RelayEventsInOrder ==
    last.op # "init" =>
        /\ (last.op = "relay" /\ last.resp = Ok) =>
               last.out_ctx.events = <<[service |-> "asset", name |-> "BurnAsset"],
                                       [service |-> "asset", name |-> "RelayAsset"]>>
        /\ last.resp # Ok => last.out_ctx.events = <<>>

RelayServed == last.op = "relay" /\ last.resp = Ok

(***************************************************************************)
(* Transfers of the native asset under an activated quota config, sent by  *)
(* every address for itself and, through the extra of the context, for     *)
(* another address.                                                        *)
(***************************************************************************)
\* one unit a day for every account
SenderQuotaConfig == QuotaConfig(TRUE, <<2, 1, U64Max, U64Max>>, TRUE)

SenderExtras == {NoExtra, "0x01"}

\* address 1 sends for itself, address 3 sends for itself and for address 1
SenderCallers == {1, 3}

SenderLimits == {10000000}

InitSender ==
    /\ asset_store = init_genesis(EmptyAssetStore, LedgerGenesisPayload)
    /\ quota_store = QuotaGenesis(SenderQuotaConfig)
    /\ kyc_store = KycGenesis({})
    /\ ts_store = TimestampGenesis
    /\ riscv_store = EmptyRiscvStore
    /\ last = NoRequest

SenderTransfer ==
    \E caller \in SenderCallers, to \in Holders, value \in {1, 2}, extra \in SenderExtras,
       limit \in SenderLimits :
        LET payload == [asset_id |-> QuotaAsset, to |-> to, value |-> value]
            ctx == Ctx(caller, limit, extra)
        IN  \E r \in {transfer(asset_store, quota_store, kyc_store, ts_store, ctx, payload)} :
            /\ asset_store' = r.store
            /\ quota_store' = r.quota
            /\ last' = AssetRequest("transfer", payload, ctx, r)
            /\ UNCHANGED <<riscv_store, kyc_store, ts_store>>

NextSender == SenderTransfer

SpecSender == InitSender /\ [][NextSender]_vars

\* the account a transfer debits: the address in ctx.extra, else the caller
EffectiveSender == extra_caller(last.ctx).addr

\* the quota records of the accounts other than address are as they were
\* before the last request
OtherQuotaRecordsKept(address) ==
    \A k \in (DOMAIN quota_store.account_record) \cup (DOMAIN last.pre.Q.account_record) :
        k # <<last.payload.asset_id, address>> =>
            /\ k \in DOMAIN quota_store.account_record
            /\ k \in DOMAIN last.pre.Q.account_record
            /\ quota_store.account_record[k] = last.pre.Q.account_record[k]

\* C32: a transfer that debits an account consumes the quota of that account
\* and of no other, also when the account is named by ctx.extra.
C32_QuotaOfTheDebitedAccount ==
    (/\ last.op = "transfer" /\ last.resp = Ok
     /\ EffectiveSender # last.payload.to) =>
        /\ PostBalance(EffectiveSender) = PreBalance(EffectiveSender) - last.payload.value
        /\ <<last.payload.asset_id, EffectiveSender>> \in DOMAIN quota_store.account_record
        /\ OtherQuotaRecordsKept(EffectiveSender)

\* without an extra the caller is debited and the caller's quota is consumed
CallerQuotaWithoutExtra ==
    (/\ last.op = "transfer" /\ last.resp = Ok /\ last.ctx.extra = NoExtra
     /\ last.ctx.caller # last.payload.to) =>
        /\ PostBalance(last.ctx.caller) = PreBalance(last.ctx.caller) - last.payload.value
        /\ <<last.payload.asset_id, last.ctx.caller>> \in DOMAIN quota_store.account_record
        /\ OtherQuotaRecordsKept(last.ctx.caller)

\* with an extra the account of the extra is debited and the quota record of
\* the caller is the one written
CallerQuotaWithExtra ==
    (/\ last.op = "transfer" /\ last.resp = Ok /\ last.ctx.extra # NoExtra
     /\ EffectiveSender # last.payload.to) =>
        /\ PostBalance(EffectiveSender) = PreBalance(EffectiveSender) - last.payload.value
        /\ <<last.payload.asset_id, last.ctx.caller>> \in DOMAIN quota_store.account_record
        /\ OtherQuotaRecordsKept(last.ctx.caller)

\* address 1 was debited two units within a day under a daily quota of one:
\* the last unit on a transfer that address 3 sent for it
DebitedPastOwnQuota ==
    /\ last.op = "transfer" /\ last.resp = Ok
    /\ EffectiveSender = 1 /\ last.ctx.caller # 1
    /\ asset_balance(asset_store, 1, QuotaAsset).value = 0

(***************************************************************************)
(* The administration of an asset: the native asset is administered by     *)
(* address 1 at genesis and held by addresses 1 and 2; every address tries *)
(* to mint it and to hand its administration on.                           *)
(***************************************************************************)
AdminGenesisPayload ==
    [id |-> QuotaAsset, supply |-> 2, admin |-> 1, relayable |-> FALSE,
     init_mints |-> <<Issuer(1, 1), Issuer(2, 1)>>]

\* ample; less than the charge of a handler
AdminLimits == {100000, 1000}

\* the native asset and an asset that was never created
AdminAssets == {QuotaAsset, 2}

InitAdmin ==
    /\ asset_store = init_genesis([EmptyAssetStore EXCEPT !.transfer_quota_service = FALSE],
                                  AdminGenesisPayload)
    /\ quota_store = EmptyQuotaStore
    /\ kyc_store = EmptyKycStore
    /\ ts_store = TimestampGenesis
    /\ riscv_store = EmptyRiscvStore
    /\ last = NoRequest

AdminMint ==
    \E asset_id \in AdminAssets, caller \in Addrs, to \in Holders, amount \in {0, 1, 2},
       limit \in AdminLimits :
        LET payload == [asset_id |-> asset_id, to |-> to, amount |-> amount]
            ctx == Ctx(caller, limit, NoExtra)
        IN  \E r \in {mint(asset_store, quota_store, ctx, payload)} :
            /\ asset_store' = r.store
            /\ quota_store' = r.quota
            /\ last' = AssetRequest("mint", payload, ctx, r)
            /\ UNCHANGED <<riscv_store, kyc_store, ts_store>>

AdminChange ==
    \E asset_id \in AdminAssets, caller \in Addrs, new_admin \in Addrs \cup {ZeroAddr},
       limit \in AdminLimits :
        LET payload == [asset_id |-> asset_id, new_admin |-> new_admin]
            ctx == Ctx(caller, limit, NoExtra)
        IN  \E r \in {change_admin(asset_store, quota_store, ctx, payload)} :
            /\ asset_store' = r.store
            /\ quota_store' = r.quota
            /\ last' = AssetRequest("change_admin", payload, ctx, r)
            /\ UNCHANGED <<riscv_store, kyc_store, ts_store>>

NextAdmin == AdminMint \/ AdminChange

SpecAdmin == InitAdmin /\ [][NextAdmin]_vars

\* the last request was a mint or a change_admin
IsAdminRequest == last.op \in {"mint", "change_admin"}

\* the request is well formed, names an asset of the ledger and can pay the
\* handler's cycles
AdminRequestArrives(req) ==
    /\ req.ctx.cycles_limit >= 21000
    /\ req.payload.asset_id \in DOMAIN req.pre.A.assets
    /\ IF req.op = "mint" THEN MintAssetPayload_verify(req.payload) = Ok
       ELSE ChangeAdminPayload_verify(req.payload) = Ok

\* the admin of the request's asset when the request arrived
AdminBefore(req) == req.pre.A.assets[req.payload.asset_id].admin

\* what the last request did, judged against the admin it met
AdminGuards(req, store) ==
    /\ req.resp = Ok =>
           /\ AdminRequestArrives(req)
           /\ req.ctx.caller = AdminBefore(req)
    /\ (AdminRequestArrives(req) /\ req.ctx.caller # AdminBefore(req)) =>
           /\ req.resp = "Unauthorized"
           /\ store = req.pre.A
    /\ (req.op = "change_admin" /\ req.resp = Ok) =>
           /\ store.assets[req.payload.asset_id].admin = req.payload.new_admin
           /\ store.assets[req.payload.asset_id].supply
                  = req.pre.A.assets[req.payload.asset_id].supply
           /\ store.balances = req.pre.A.balances
    /\ (req.op = "mint" /\ AdminRequestArrives(req) /\ req.ctx.caller = AdminBefore(req)) =>
           req.resp \in {Ok, "BalanceOverflow"}
    /\ (req.op = "change_admin" /\ AdminRequestArrives(req)
            /\ req.ctx.caller = AdminBefore(req)) => req.resp = Ok

\* the request that follows a hand-over of the administration
AfterHandOver(old, new) ==
    (/\ old.op = "change_admin" /\ old.resp = Ok
     /\ old.payload.new_admin # old.ctx.caller
     /\ new.op \in {"mint", "change_admin"}
     /\ new.payload.asset_id = old.payload.asset_id
     /\ AdminRequestArrives(new)) =>
        /\ new.ctx.caller = old.ctx.caller => new.resp = "Unauthorized"
        /\ new.ctx.caller = old.payload.new_admin => new.resp \in {Ok, "BalanceOverflow"}

\* C40: mint and change_admin are served only for the caller that is the
\* asset's admin when the request arrives; a well-formed request of any other
\* caller on an existing asset is answered Unauthorized and leaves supply,
\* balances and admin as they were; a served change_admin makes new_admin the
\* admin and keeps supply and balances, so that the next request of the
\* previous admin is refused and the next request of the new admin is served
C40_OnlyAdminMintsAndHandsOver ==
    [][(IsAdminRequest' => AdminGuards(last', asset_store'))
       /\ (IsAdminRequest /\ IsAdminRequest' => AfterHandOver(last, last'))]_vars

\* the administration went from 1 to 2 and the new admin minted
C40_Witness ==
    /\ last.op = "mint" /\ last.resp = Ok /\ last.ctx.caller = 2
    /\ last.pre.A.assets[QuotaAsset].admin = 2

\* the previous admin was refused after the hand-over
PreviousAdminRefused ==
    /\ IsAdminRequest /\ last.resp = "Unauthorized" /\ last.ctx.caller = 1
    /\ last.payload.asset_id = QuotaAsset
    /\ AdminBefore(last) # 1

(***************************************************************************)
(* The quota engine while the user's tags and the asset's config change:   *)
(* address 1 is the admin of the KYC organisations and of the asset's      *)
(* config and the user whose transfers are checked.  Huobi is approved,    *)
(* Beta is not and no organisation is named Gamma.                         *)
(***************************************************************************)
ExprGamma ==
    [text |-> "Gamma.level@'L1'", neg |-> FALSE, org |-> "Gamma", tag |-> "level",
     value |-> "L1"]

\* the rules of a config: daily_head is put before the daily rules and
\* yearly is the yearly list
RulesConfig(activated, daily_head, yearly) ==
    [admin |-> 1, activated |-> activated,
     single_bill_quota  |-> <<Rule(ExprNotNull, U64Max), Rule(ExprNull, U64Max)>>,
     daily_quota_rule   |-> daily_head \o <<Rule(ExprL1, 1), Rule(ExprNotNull, U64Max),
                                             Rule(ExprNull, 2)>>,
     monthly_quota_rule |-> <<Rule(ExprNull, 1), Rule(ExprNotNull, 2)>>,
     yearly_quota_rule  |-> yearly]

YearlyForAll == <<Rule(ExprNotNull, U64Max), Rule(ExprNull, U64Max)>>

\* an activated config, the same config deactivated, one whose yearly rules
\* match the level L1 only and one whose first daily rule names Gamma
RulesConfigs ==
    { RulesConfig(TRUE, <<Rule(ExprBeta, 0)>>, YearlyForAll),
      RulesConfig(FALSE, <<Rule(ExprBeta, 0)>>, YearlyForAll),
      RulesConfig(TRUE, <<Rule(ExprBeta, 0)>>, <<Rule(ExprBeta, U64Max), Rule(ExprL1, U64Max)>>),
      RulesConfig(TRUE, <<Rule(ExprGamma, 0)>>, YearlyForAll) }

RulesTagMaps ==
    { <<>>, [t \in {"level"} |-> <<"L1">>], [t \in {"level"} |-> <<"L2">>] }

\* enough for every charge of the requests of this specification
RulesLimits == {10000000}

\* ample; enough for the charge of quota_transfer and not for the one of
\* reading the time
RulesTransferLimits == {10000000, 3000}

InitRules ==
    /\ asset_store = EmptyAssetStore
    /\ kyc_store = KycGenesis({})
    /\ ts_store = TimestampGenesis
    /\ quota_store = QuotaGenesis(RulesConfig(TRUE, <<Rule(ExprBeta, 0)>>, YearlyForAll))
    /\ riscv_store = EmptyRiscvStore
    /\ last = NoRequest

RulesTransfer ==
    \E asset_id \in {QuotaAsset, 2}, amount \in {1, 2}, limit \in RulesTransferLimits :
        LET payload == [asset_id |-> asset_id, address |-> 1, amount |-> amount]
            ctx == Ctx(3, limit, NoExtra)
        IN  \E r \in {quota_transfer(quota_store, kyc_store, ts_store, ctx, payload)} :
            /\ quota_store' = r.store
            /\ last' = Request("quota_transfer", payload, ctx, QuotaPre, r)
            /\ UNCHANGED <<riscv_store, asset_store, kyc_store, ts_store>>

RulesUpdateUserTags ==
    \E tags \in RulesTagMaps, limit \in RulesLimits :
        \E order \in SetToSeqs(DOMAIN tags) :
            LET payload == [org_name |-> "Huobi", user |-> 1, tags |-> tags]
                ctx == Ctx(1, limit, NoExtra)
            IN  \E r \in {update_user_tags(kyc_store, ctx, payload, order)} :
                /\ kyc_store' = r.store
                /\ last' = Request("update_user_tags", payload, ctx, QuotaPre, r)
                /\ UNCHANGED <<riscv_store, asset_store, quota_store, ts_store>>

RulesChangeAssetConfig ==
    \E caller \in {1, 2}, config \in RulesConfigs, limit \in RulesLimits :
        LET payload == [asset_id |-> QuotaAsset, asset_config |-> config]
            ctx == Ctx(caller, limit, NoExtra)
        IN  \E r \in {change_asset_config(quota_store, ctx, payload)} :
            /\ quota_store' = r.store
            /\ last' = Request("change_asset_config", payload, ctx, QuotaPre, r)
            /\ UNCHANGED <<riscv_store, asset_store, kyc_store, ts_store>>

NextRules == RulesTransfer \/ RulesUpdateUserTags \/ RulesChangeAssetConfig

SpecRules == InitRules /\ [][NextRules]_vars

\* the last request is a quota_transfer for an asset that has a config
KnownAssetTransfer ==
    IsQuotaTransfer /\ last.payload.asset_id \in DOMAIN last.pre.Q.asset_config

\* C34: a quota_transfer that fails (AssetNotFound, QuotaExceed,
\* QuotaCalcOverflow or QuotaNoRuleHit in any bucket, also in a later bucket
\* after earlier buckets passed) leaves the stored records unchanged: no used
\* counter and no last_op_time is persisted.
C34_FailedQuotaTransferKeepsRecord ==
    (IsQuotaTransfer /\ last.resp # Ok) =>
        quota_store.account_record = last.pre.Q.account_record

\* C34 witness: a transfer refused for the monthly bucket after the single
\* bill and the daily bucket admitted it, on a record that has counters
C34_Witness ==
    /\ KnownAssetTransfer
    /\ last.resp = QuotaExceed("Monthly")
    /\ ReqRecord.daily_used_amount > 0
    /\ ReqRecord.daily_used_amount + last.payload.amount <= 2
    /\ quota_store.account_record[ReqKey] = ReqRecord

\* the other refusals of C34 happen as well
QuotaRefusalsHappen ==
    /\ IsQuotaTransfer
    /\ last.resp \in {"AssetNotFound", QuotaCalcOverflow("Daily"), QuotaNoRuleHit("Yearly")}

\* C35: in each bucket the quota applied is that of the first rule, in
\* declaration order, whose KYC expression evaluates true for the address:
\* a request is admitted only when that quota admits it in every bucket, is
\* refused for a bucket only when that quota is exceeded by the counter of the
\* stored record plus the amount, whatever later rules would admit and
\* whichever rule the counter was accumulated under, and meets no rule only
\* in a bucket where no expression is true.
C35_FirstMatchingRuleApplies ==
    (KnownAssetTransfer /\ ReqConfig.activated) =>
        /\ last.resp = Ok => \A b \in Buckets : HasMatch(b) /\ ~Offending(b)
        /\ \A b \in Buckets : last.resp \in Rejections(b) => HasMatch(b) /\ Offending(b)
        /\ \A b \in Buckets : last.resp = QuotaNoRuleHit(b) => ~HasMatch(b)

\* a later rule of bucket b is true for the address and would admit the amount
LaterRuleAdmits(b) ==
    \E i \in 1..Len(BucketRules(b)) :
        /\ RuleMatches(BucketRules(b)[i])
        /\ BucketRules(b)[i].quota > MatchedQuota(b)
        /\ WindowUsed(b) + last.payload.amount <= BucketRules(b)[i].quota

\* C35 witness: after the user's tags changed, the daily counter accumulated
\* under the old rule exceeds the quota of the rule that matches now, a later
\* rule would admit the transfer and the transfer is refused
C35_Witness ==
    /\ KnownAssetTransfer /\ ReqConfig.activated
    /\ last.resp = QuotaExceed("Daily")
    /\ WindowUsed("Daily") > MatchedQuota("Daily")
    /\ LaterRuleAdmits("Daily")

\* every bucket before b has a rule that is true for the address and admits
\* the amount
EarlierBucketsPass(b) ==
    \A c \in Buckets : BucketOrder(c) < BucketOrder(b) => HasMatch(c) /\ ~Offending(c)

\* C36 as stated: a rule whose KYC expression fails to evaluate (an unknown
\* or unapproved organisation) is skipped and the iteration goes on with the
\* next rule without aborting the request; when no rule of a bucket
\* evaluates true the request fails with QuotaNoRuleHit for that bucket
\* (for a request whose cycles cover every evaluation)
C36_FailedEvaluationSkipped ==
    (KnownAssetTransfer /\ ReqConfig.activated /\ AmpleCycles) =>
        /\ last.resp # "Panic"
        /\ \A b \in Buckets :
               (EarlierBucketsPass(b) /\ ~HasMatch(b)) => last.resp = QuotaNoRuleHit(b)

\* the rules of the request's config name registered organisations only
NamesKnownOrgs ==
    \A b \in Buckets : \A i \in 1..Len(BucketRules(b)) :
        BucketRules(b)[i].kyc_expr.org \in DOMAIN kyc_store.orgs

\* a rule that names an unapproved organisation is skipped
UnapprovedOrgSkipped ==
    (KnownAssetTransfer /\ ReqConfig.activated /\ AmpleCycles /\ NamesKnownOrgs) =>
        /\ last.resp # "Panic"
        /\ \A b \in Buckets :
               (EarlierBucketsPass(b) /\ ~HasMatch(b)) => last.resp = QuotaNoRuleHit(b)

\* a request served although the first daily rule names the unapproved Beta
ServedPastUnapprovedOrg ==
    /\ KnownAssetTransfer /\ ReqConfig.activated /\ NamesKnownOrgs
    /\ ReqConfig.daily_quota_rule[1].kyc_expr.org = "Beta"
    /\ last.resp = Ok

\* a rule that names an unknown organisation aborts the request
UnknownOrgAborts ==
    (KnownAssetTransfer /\ ReqConfig.activated /\ AmpleCycles /\ ~NamesKnownOrgs) => last.resp = "Panic"

\* C37: while the asset's config has activated = false, quota_transfer
\* succeeds for every address and amount whatever the rule lists contain
\* (given the cycles of its own charge), and neither reads the time (it
\* charges nothing beyond its own 2000 cycles) nor modifies the account
\* record; changing the config leaves the records as stored, so that
\* enforcement resumes against them.
C37_DeactivatedConfigAdmitsAll ==
    /\ (KnownAssetTransfer /\ ~ReqConfig.activated /\ last.ctx.cycles_limit >= 2000) =>
           /\ last.resp = Ok
           /\ quota_store = last.pre.Q
           /\ last.out_ctx.cycles_used = 2000
    /\ last.op = "change_asset_config" =>
           quota_store.account_record = last.pre.Q.account_record

\* C37 witness: under a deactivated config a transfer whose amount the daily
\* rule would refuse against the stored counter is admitted with cycles that
\* do not cover a reading of the time, and the record is as it was
C37_Witness ==
    /\ KnownAssetTransfer /\ ~ReqConfig.activated
    /\ last.ctx.cycles_limit = 3000
    /\ last.resp = Ok
    /\ ReqRecord.daily_used_amount + last.payload.amount > U64Max
    /\ quota_store.account_record[ReqKey] = ReqRecord

\* a config change by the admin kept the counters
ConfigChangeKeepsCounters ==
    /\ last.op = "change_asset_config" /\ last.resp = Ok
    /\ last.payload.asset_config.activated
    /\ ~last.pre.Q.asset_config[QuotaAsset].activated
    /\ <<QuotaAsset, 1>> \in DOMAIN quota_store.account_record
    /\ quota_store.account_record[<<QuotaAsset, 1>>].daily_used_amount > 0

(***************************************************************************)
(* The timestamp service in its two modes: address 1 is its admin, the     *)
(* executor's hook and the admin's feed_time carry the moments of Moments. *)
(***************************************************************************)
\* ample; enough for the charge of feed_time and not for the one of get_info;
\* nothing
TimestampLimits == {10000, 3000, 1000}

InitTimestamp ==
    /\ asset_store = EmptyAssetStore
    /\ quota_store = EmptyQuotaStore
    /\ kyc_store = EmptyKycStore
    /\ \E oracle \in BOOLEAN : ts_store = [TimestampGenesis EXCEPT !.oracle = oracle]
    /\ riscv_store = EmptyRiscvStore
    /\ last = NoRequest

TimestampPre == [T |-> ts_store]

FeedTime ==
    \E caller \in {1, 2}, timestamp \in Moments, limit \in TimestampLimits :
        LET payload == [timestamp |-> timestamp]
            ctx == Ctx(caller, limit, NoExtra)
        IN  \E r \in {feed_time(ts_store, ctx, payload)} :
            /\ ts_store' = r.store
            /\ last' = Request("feed_time", payload, ctx, TimestampPre, r)
            /\ UNCHANGED <<riscv_store, asset_store, kyc_store, quota_store>>

SetOracle ==
    \E caller \in {1, 2}, oracle \in BOOLEAN :
        LET payload == [oracle |-> oracle]
            ctx == Ctx(caller, 10000, NoExtra)
        IN  \E r \in {set_oracle(ts_store, ctx, payload)} :
            /\ ts_store' = r.store
            /\ last' = Request("set_oracle", payload, ctx, TimestampPre, r)
            /\ UNCHANGED <<riscv_store, asset_store, kyc_store, quota_store>>

NextTimestamp == FeedTime \/ SetOracle \/ SetTimestampHook

SpecTimestamp == InitTimestamp /\ [][NextTimestamp]_vars

IsFeedTime == last.op = "feed_time"

IsHookCall == last.op = "set_timestamp_hook"

\* the time a feed_time or a hook call carries
Carried == IF IsFeedTime THEN last.payload.timestamp ELSE last.payload

\* a feed_time that passes every check before set_time
FeedTimeAccepted ==
    /\ IsFeedTime
    /\ last.ctx.cycles_limit >= 4000
    /\ last.ctx.caller = last.pre.T.admin
    /\ last.pre.T.oracle

\* a call that reaches set_time
ReachesSetTime == FeedTimeAccepted \/ (IsHookCall /\ ~last.pre.T.oracle)

\* C28: the stored time never decreases under any sequence of feed_time and
\* set_timestamp_hook calls: a call that carries a time less than or equal
\* to the stored time leaves it unchanged (feed_time still answers success)
\* and a call that is accepted sets it to the larger value.
C28_TimeNeverDecreases ==
    (IsFeedTime \/ IsHookCall) =>
        /\ ~TimeGT(last.pre.T.time, ts_store.time)
        /\ (ReachesSetTime /\ ~TimeGT(Carried, last.pre.T.time)) =>
               /\ ts_store.time = last.pre.T.time
               /\ IsFeedTime => last.resp = Ok
        /\ (ReachesSetTime /\ TimeGT(Carried, last.pre.T.time)) =>
               /\ ts_store.time = Carried
               /\ IsFeedTime => last.resp = Ok
        /\ ~ReachesSetTime => ts_store.time = last.pre.T.time

\* C28 witness: a feed_time that carries a time before the stored one, after
\* the stored time was advanced, answers success and changes nothing
C28_Witness ==
    /\ FeedTimeAccepted /\ last.resp = Ok
    /\ TimeGT(last.pre.T.time, Carried)
    /\ TimeGT(last.pre.T.time, TimeOriginal)
    /\ ts_store.time = last.pre.T.time

\* C29: the two time sources are mutually exclusive by mode: while
\* info.oracle is true set_timestamp_hook never changes the stored time and
\* only feed_time by the admin can; while info.oracle is false feed_time by
\* the admin fails with NotOracleMode and leaves the time unchanged while the
\* hook advances it; feed_time by a non-admin fails with NotAuthorized in
\* both modes.
C29_SourcesExclusive ==
    /\ (IsHookCall /\ last.pre.T.oracle) => ts_store.time = last.pre.T.time
    /\ (IsHookCall /\ ~last.pre.T.oracle /\ TimeGT(Carried, last.pre.T.time)) =>
           ts_store.time = Carried
    /\ (IsFeedTime /\ last.ctx.cycles_limit >= 4000) =>
           IF last.ctx.caller # last.pre.T.admin
           THEN last.resp = "NotAuthorized" /\ ts_store = last.pre.T
           ELSE IF ~last.pre.T.oracle
           THEN last.resp = "NotOracleMode" /\ ts_store = last.pre.T
           ELSE last.resp = Ok
    /\ (last.op # "init" /\ last.pre.T.oracle /\ ts_store.time # last.pre.T.time) =>
           IsFeedTime /\ last.ctx.caller = last.pre.T.admin

\* C29 witness: in oracle mode, entered by set_oracle, the admin's feed_time
\* advanced the time
C29_Witness ==
    /\ FeedTimeAccepted /\ last.resp = Ok
    /\ TimeGT(ts_store.time, last.pre.T.time)
    /\ ts_store.oracle

\* the admin's feed_time is refused outside oracle mode
FeedTimeRefusedOutsideOracleMode ==
    /\ IsFeedTime /\ last.resp = "NotOracleMode" /\ ~last.pre.T.oracle

(***************************************************************************)
(* Properties of the cycle accounting of a run, stated on the boundaries    *)
(* recorded for the last call, exec or deploy.                              *)
(***************************************************************************)
IsRun == last.op \in {"call", "exec", "deploy"}

\* the ecalls that go through WriteableChain::serve
EntersServe(e) ==
    \/ e.kind \in {"service_read", "contract_call"}
    \/ e.kind = "service_write" /\ last.op # "call"

Delta(e) == e.current_cycle - e.all_before

Refused(e) ==
    \/ e.current_cycle < e.all_before
    \/ e.used_before + Delta(e) > last.ctx.cycles_limit

\* the #[cycles(..)] of the host operation behind an ecall
HostCycles(e) ==
    IF e.kind \notin {"service_read", "service_write"} THEN 0
    ELSE IF e.ecall.service # "asset" THEN 0
    ELSE IF e.kind = "service_read" /\ e.ecall.method = "balance" THEN 10000
    ELSE IF e.kind = "service_write" /\ e.ecall.method = "burn_" THEN 21000
    ELSE 0

\* what the host operation charges a context that was charged Delta(e) first
HostCharge(e) ==
    IF e.used_before + Delta(e) + HostCycles(e) <= last.ctx.cycles_limit
    THEN HostCycles(e) ELSE 0

\* C13: for every service_read / service_write ecall that enters the bridge
\* with the counter current_cycle, the bridge charges delta = current_cycle -
\* all_cycles_used before the host operation runs; when current_cycle <
\* all_cycles_used or the context cannot afford delta it answers OutOfCycles
\* and the host operation has not run; after a successful host operation
\* all_cycles_used equals ctx.cycles_used and the machine continues with that
\* value as its cycle count.
C13_BridgeCharges ==
    IsRun =>
        \A i \in 1..Len(last.trace) :
            \A e \in {last.trace[i]} :
                EntersServe(e) =>
                    /\ Refused(e) =>
                           /\ e.resp = "OutOfCycles"
                           /\ e.used_after = e.used_before
                           /\ e.all_after = e.all_before
                           /\ e.kept
                    /\ ~Refused(e) =>
                           e.used_after = e.used_before + Delta(e) + HostCharge(e)
                    /\ e.resp = Ok =>
                           /\ e.all_after = e.used_after
                           /\ e.cycle = e.used_after

\* C13 witness: a run with two service ecalls that succeed, the second
\* entering the bridge after all_cycles_used was moved by the first
C13_Witness ==
    /\ IsRun /\ Len(last.trace) = 2
    /\ EntersServe(last.trace[1]) /\ last.trace[1].resp = Ok
    /\ EntersServe(last.trace[2]) /\ last.trace[2].resp = Ok
    /\ last.trace[2].all_before = last.trace[1].used_after
    /\ last.trace[2].all_before > 0
    /\ Delta(last.trace[2]) > 0

\* a deploy whose init run meets the bridge with a context that cannot afford
\* the cycles the machine counted
RefusedAtEntry ==
    /\ last.op = "deploy" /\ Len(last.trace) = 1
    /\ Refused(last.trace[1]) /\ last.trace[1].current_cycle >= last.trace[1].all_before
    /\ last.resp = "CkbVm"

\* the program of the last run and what was charged before the machine started
RunProgram == IF last.op = "deploy" THEN last.payload.init_args ELSE last.payload.args

CodeCharge == IF last.op = "deploy" THEN Len(hex_decode(last.payload.code).bytes) * 10 ELSE 0

\* the cycles of the instructions the machine ran up to its i-th ecall
RECURSIVE WorkUpTo(_, _)
WorkUpTo(ecalls, i) == IF i = 0 THEN 0 ELSE WorkUpTo(ecalls, i - 1) + ecalls[i].work

\* the cycles of the host operations that ran behind the first i ecalls
RECURSIVE HostUpTo(_, _)
HostUpTo(trace, i) ==
    IF i = 0 THEN 0
    ELSE HostUpTo(trace, i - 1)
         + (IF trace[i].resp = Ok /\ EntersServe(trace[i]) THEN HostCycles(trace[i]) ELSE 0)

InstructionCycles == WorkUpTo(RunProgram.ecalls, Len(RunProgram.ecalls)) + RunProgram.work

\* what the host operations behind the first i ecalls charged the context,
\* those that failed after their charge included
RECURSIVE HostChargedUpTo(_, _)
HostChargedUpTo(trace, i) ==
    IF i = 0 THEN 0
    ELSE HostChargedUpTo(trace, i - 1)
         + (IF EntersServe(trace[i]) /\ ~Refused(trace[i]) THEN HostCharge(trace[i]) ELSE 0)

\* what the bridge charged the context for the machine's instructions up to
\* and with the i-th ecall
BridgeChargedUpTo(trace, i) ==
    trace[i].used_after - (last.ctx.cycles_used + CodeCharge) - HostChargedUpTo(trace, i)

\* the host operation behind the ecall e ran and returned an error
HostOpFailed(e) == EntersServe(e) /\ ~Refused(e) /\ e.resp # Ok

RunEndsAtFailedHostOp ==
    /\ IsRun /\ 0 < Len(last.trace) /\ Len(last.trace) < Len(RunProgram.ecalls)
    /\ HostOpFailed(last.trace[Len(last.trace)])

\* C14: when the machine halts with exit code 0 only the cycles beyond
\* all_cycles_used are deducted, so that the run adds to ctx.cycles_used the
\* machine's instruction cycles plus the host operations' cycles, nothing
\* twice and nothing omitted.
C14_HaltChargesRemainder ==
    (IsRun /\ last.started /\ last.resp = Ok) =>
        last.out_ctx.cycles_used =
            last.ctx.cycles_used + CodeCharge + InstructionCycles
                + HostUpTo(last.trace, Len(last.trace))

\* a run that halted with exit code 0 after a host operation
HaltAfterHostOp ==
    /\ IsRun /\ last.started /\ last.resp = Ok
    /\ HostUpTo(last.trace, Len(last.trace)) > 0

\* C15: when the machine fails or exits with a code other than 0, call, exec
\* and deploy answer with an error (NonZeroExitCode or the machine's error)
\* and the cycles the machine consumed are charged to ctx.cycles_used.
C15_FailedRunCharged ==
    (IsRun /\ last.started /\ last.resp # Ok
        /\ last.ctx.cycles_used + CodeCharge + last.vm_cycles <= last.ctx.cycles_limit) =>
        /\ last.resp \in {"NonZeroExitCode", "CkbVm"}
        /\ last.out_ctx.cycles_used >= last.ctx.cycles_used + CodeCharge + last.vm_cycles

\* a run that exits with a code other than 0 is answered with an error
FailedRunAnswered ==
    (IsRun /\ last.started /\ RunProgram.ret_code # 0) => last.resp \in {"NonZeroExitCode", "CkbVm"}

\* the contract_call ecalls of the last run that the bridge did not refuse
\* for cycles
ContractCalls ==
    {i \in 1..Len(last.trace) :
        last.trace[i].kind = "contract_call" /\ ~Refused(last.trace[i])}

\* C22: the read-only / read-write context propagates into contract to
\* contract invocation: a contract_call through the readonly bridge runs the
\* callee as a readonly call and returns its output, a contract_call through
\* the writeable bridge runs the callee as exec.
C22_ContractCallRunsCallee ==
    (IsRun /\ last.started) =>
        \A i \in ContractCalls :
            /\ last.trace[i].ecall.address \in DOMAIN last.pre.R.contracts
            /\ granted(last.pre.R, last.trace[i].ecall.address, "Contract")
            => last.trace[i].resp = Ok

\* what the bridges answer to a contract_call: the dispatch knows no service
\* riscv, the callee does not run and the caller's run fails
ContractCallNotServed ==
    (IsRun /\ last.started) =>
        \A i \in ContractCalls :
            /\ last.trace[i].resp = "ServiceNotFound"
            /\ last.trace[i].kept
            /\ last.resp = "CkbVm"

\* a contract_call of an approved contract through the readonly bridge
ReadonlyContractCall ==
    /\ last.op = "call" /\ last.started /\ ContractCalls # {}
    /\ \A i \in ContractCalls : granted(last.pre.R, last.trace[i].ecall.address, "Contract")

\* a contract_call of an approved contract through the writeable bridge
WriteableContractCall ==
    /\ last.op = "exec" /\ last.started /\ ContractCalls # {}
    /\ \A i \in ContractCalls : granted(last.pre.R, last.trace[i].ecall.address, "Contract")

IsDeploy == last.op = "deploy"

DeployedCode == hex_decode(last.payload.code).bytes

\* C23: for any deploy that succeeds with a present tx_hash the returned
\* address is the first 20 bytes of hash(tx_hash), a contract record with the
\* code's hash is stored at that address and the code map maps that hash to
\* the deployed code bytes.
C23_DeployStoresContract ==
    (IsDeploy /\ last.resp = Ok /\ last.ctx.tx_hash # NoTxHash) =>
        /\ Len(last.ret) = 1
        /\ last.ret[1].address = contract_address_of(last.ctx.tx_hash)
        /\ last.ret[1].address \in DOMAIN riscv_store.contracts
        /\ riscv_store.contracts[last.ret[1].address].code_hash = code_digest(DeployedCode)
        /\ code_digest(DeployedCode) \in DOMAIN riscv_store.code
        /\ riscv_store.code[code_digest(DeployedCode)] = DeployedCode

\* C23 witness: a deploy that ran its init program and succeeded, at an
\* address that had no contract
C23_Witness ==
    /\ IsDeploy /\ last.resp = Ok /\ last.started
    /\ last.ctx.tx_hash # NoTxHash
    /\ contract_address_of(last.ctx.tx_hash) \notin DOMAIN last.pre.R.contracts
    /\ contract_address_of(last.ctx.tx_hash) \in DOMAIN riscv_store.contracts

\* the addresses that hold a Contract grant
ContractGrants(R) == {k[1] : k \in {g \in DOMAIN R.grants : g[2] = "Contract"}}

\* the addresses of an approve_contract request that have no contract record
Unrecorded ==
    {last.payload.addresses[i] : i \in 1..Len(last.payload.addresses)}
        \ DOMAIN last.pre.R.contracts

\* an approve_contract by an admin who can pay for it
ApproveContractEntered ==
    /\ last.op = "approve_contract"
    /\ is_admin(last.pre.R, last.ctx)
    /\ sub_cycles_ok(last.ctx, Len(last.payload.addresses) * 10000)

\* C24: in every reachable state every address that holds a Contract grant
\* has a contract record: approve_contract on an address without a record
\* fails with ContractNotFound and does not grant that address, and no
\* operation removes a contract record.
C24_ContractGrantsHaveRecords ==
    /\ ContractGrants(riscv_store) \subseteq DOMAIN riscv_store.contracts
    /\ (ApproveContractEntered /\ Unrecorded # {}) =>
           /\ last.resp = "ContractNotFound"
           /\ Unrecorded \cap ContractGrants(riscv_store) = {}
    /\ last.op # "init" =>
           DOMAIN last.pre.R.contracts \subseteq DOMAIN riscv_store.contracts

\* C24 witness: an approve_contract of a recorded and an unrecorded address:
\* the first is granted, the second is not
C24_Witness ==
    /\ ApproveContractEntered /\ Unrecorded # {}
    /\ ContractGrants(last.pre.R) = {}
    /\ ContractGrants(riscv_store) # {}

\* C25: in every state reached by any sequence of deploys, successful or
\* failing, the code_hash of every stored contract record is a key of the
\* code map, so that load_contract_code never answers CodeNotFound for an
\* address that has a contract record.
C25_CodeHashResolves ==
    \A a \in DOMAIN riscv_store.contracts :
        /\ riscv_store.contracts[a].code_hash \in DOMAIN riscv_store.code
        /\ load_contract_code(riscv_store, a).err = Ok

\* C25 witness: a deploy that failed in its init run left a contract record,
\* after an earlier deploy that failed before the record was written had
\* left its code
C25_Witness ==
    /\ IsDeploy /\ last.resp # Ok /\ last.started
    /\ DOMAIN last.pre.R.code # {}
    /\ DOMAIN last.pre.R.contracts = {}
    /\ DOMAIN riscv_store.contracts # {}

(***************************************************************************)
(* The riscv service behind its authorization registry.  Address 1 is the  *)
(* service admin, address 2 holds the balance of the asset the contracts   *)
(* reach through the bridge; contracts live at addresses derived from      *)
(* transaction hashes.                                                     *)
(***************************************************************************)
RiscvGenesis ==
    [code |-> <<>>, contracts |-> <<>>, storage |-> <<>>, grants |-> <<>>, admins |-> {1}]

RiscvAssetGenesis ==
    [assets |-> [a \in {5} |-> [id |-> 5, admin |-> 1, supply |-> 2, relayable |-> FALSE]],
     balances |-> [k \in {<<2, 5>>} |-> AssetBalanceNew(2)],
     native_asset |-> <<>>, transfer_quota_service |-> TRUE]

SetK(val) == [kind |-> "set_storage", work |-> 5, key |-> "k", val |-> val]

ReadBalance ==
    [kind |-> "service_read", work |-> 5, service |-> "asset", method |-> "balance",
     payload |-> [asset_id |-> 5, user |-> 2]]

BurnAll ==
    [kind |-> "service_write", work |-> 5, service |-> "asset", method |-> "burn_",
     payload |-> [asset_id |-> 5, amount |-> 2]]

CallOther == [kind |-> "contract_call", work |-> 5, address |-> 11, args |-> "get k"]

\* the arguments of a run and what the contract's code does on them: the
\* ecalls it issues, the cycles it counts after the last of them and its exit
\* code
Args(text, ecalls, ret_code) ==
    [text |-> text, ecalls |-> ecalls, work |-> 5, ret_code |-> ret_code]

ExecArgs ==
    { Args("get k", <<>>, 0),
      Args("set k v", <<SetK("v")>>, 0),
      Args("clear k v", <<>>, 1),
      Args("balance", <<ReadBalance>>, 0),
      Args("burn", <<BurnAll>>, 0),
      Args("burn exit 1", <<BurnAll>>, 1),
      Args("balance set", <<ReadBalance, SetK("v")>>, 0),
      Args("burn set", <<BurnAll, SetK("v")>>, 0),
      Args("balance burn", <<ReadBalance, BurnAll>>, 0),
      Args("call", <<CallOther>>, 0) }

InitArgs ==
    { Args("", <<>>, 0),
      Args("set k init", <<SetK("init")>>, 0),
      Args("set", <<SetK("init")>>, 1),
      Args("balance", <<ReadBalance>>, 0) }

\* ample; enough for a bridged burn but not for the charge at the halt after
\* it; enough for the bytes of the shorter code only
RiscvLimits == {1000000, 30000, 15}

RiscvCtx(caller, limit, tx_hash) ==
    [caller |-> caller, cycles_limit |-> limit, cycles_used |-> 0, extra |-> NoExtra,
     events |-> <<>>, tx_hash |-> tx_hash]

RiscvPre == [R |-> riscv_store, A |-> asset_store, Q |-> quota_store]

RiscvRequest(op, payload, ctx, r) ==
    [op |-> op, payload |-> payload, ctx |-> ctx, pre |-> RiscvPre, resp |-> r.resp,
     out_ctx |-> r.ctx, started |-> r.started, log |-> r.log, trace |-> r.trace,
     vm_cycles |-> r.vm_cycles, ret |-> r.ret]

InitRiscv ==
    /\ asset_store = RiscvAssetGenesis
    /\ quota_store = EmptyQuotaStore
    /\ kyc_store = EmptyKycStore
    /\ ts_store = TimestampGenesis
    /\ riscv_store = RiscvGenesis
    /\ last = NoRequest

\* a transaction hash belongs to one deploy: the address it yields is free
Deploy ==
    \E caller \in {1, 2}, code \in {"01", "0102", "zz"}, tx_hash \in {NoTxHash, 1},
       init_args \in InitArgs, limit \in {1000000, 15, 12} :
        /\ contract_address_of(tx_hash) \notin DOMAIN riscv_store.contracts
        /\ LET payload == [code |-> code, intp_type |-> "Binary", init_args |-> init_args]
               ctx == RiscvCtx(caller, limit, tx_hash)
           IN  \E r \in {deploy(riscv_store, asset_store, quota_store, ctx, payload)} :
               /\ riscv_store' = r.store
               /\ asset_store' = r.asset
               /\ quota_store' = r.quota
               /\ last' = RiscvRequest("deploy", payload, ctx, r)
               /\ UNCHANGED <<kyc_store, ts_store>>

Call ==
    \E address \in {11}, args \in ExecArgs, limit \in {1000000, 15} :
        LET payload == [address |-> address, args |-> args]
            ctx == RiscvCtx(2, limit, 2)
        IN  \E r \in {call(riscv_store, asset_store, quota_store, ctx, payload)} :
            /\ riscv_store' = r.store
            /\ asset_store' = r.asset
            /\ quota_store' = r.quota
            /\ last' = RiscvRequest("call", payload, ctx, r)
            /\ UNCHANGED <<kyc_store, ts_store>>

Exec ==
    \E address \in {11}, args \in ExecArgs, limit \in RiscvLimits :
        LET payload == [address |-> address, args |-> args]
            ctx == RiscvCtx(2, limit, 2)
        IN  \E r \in {exec(riscv_store, asset_store, quota_store, ctx, payload)} :
            /\ riscv_store' = r.store
            /\ asset_store' = r.asset
            /\ quota_store' = r.quota
            /\ last' = RiscvRequest("exec", payload, ctx, r)
            /\ UNCHANGED <<kyc_store, ts_store>>

GrantDeployAuth ==
    \E caller \in {1, 2}, addresses \in {<<2>>, <<2, 1>>}, limit \in {1000000, 15000} :
        LET payload == [addresses |-> addresses]
            ctx == RiscvCtx(caller, limit, 2)
        IN  \E r \in {grant_deploy_auth(riscv_store, asset_store, quota_store, ctx, payload)} :
            /\ riscv_store' = r.store
            /\ asset_store' = r.asset
            /\ quota_store' = r.quota
            /\ last' = RiscvRequest("grant_deploy_auth", payload, ctx, r)
            /\ UNCHANGED <<kyc_store, ts_store>>

RevokeDeployAuth ==
    \E caller \in {1, 2}, addresses \in {<<2>>, <<2, 1>>}, limit \in {1000000, 15000} :
        LET payload == [addresses |-> addresses]
            ctx == RiscvCtx(caller, limit, 2)
        IN  \E r \in {revoke_deploy_auth(riscv_store, asset_store, quota_store, ctx, payload)} :
            /\ riscv_store' = r.store
            /\ asset_store' = r.asset
            /\ quota_store' = r.quota
            /\ last' = RiscvRequest("revoke_deploy_auth", payload, ctx, r)
            /\ UNCHANGED <<kyc_store, ts_store>>

ApproveContract ==
    \E caller \in {1, 2}, addresses \in {<<11>>, <<11, 12>>}, limit \in {1000000, 15000} :
        LET payload == [addresses |-> addresses]
            ctx == RiscvCtx(caller, limit, 2)
        IN  \E r \in {approve_contract(riscv_store, asset_store, quota_store, ctx, payload)} :
            /\ riscv_store' = r.store
            /\ asset_store' = r.asset
            /\ quota_store' = r.quota
            /\ last' = RiscvRequest("approve_contract", payload, ctx, r)
            /\ UNCHANGED <<kyc_store, ts_store>>

RevokeContract ==
    \E caller \in {1, 2}, addresses \in {<<11>>, <<11, 12>>}, limit \in {1000000, 15000} :
        LET payload == [addresses |-> addresses]
            ctx == RiscvCtx(caller, limit, 2)
        IN  \E r \in {revoke_contract(riscv_store, asset_store, quota_store, ctx, payload)} :
            /\ riscv_store' = r.store
            /\ asset_store' = r.asset
            /\ quota_store' = r.quota
            /\ last' = RiscvRequest("revoke_contract", payload, ctx, r)
            /\ UNCHANGED <<kyc_store, ts_store>>

NextRiscv ==
    \/ Deploy \/ Call \/ Exec \/ GrantDeployAuth \/ RevokeDeployAuth
    \/ ApproveContract \/ RevokeContract

SpecRiscv == InitRiscv /\ [][NextRiscv]_vars

StoresKept ==
    riscv_store = last.pre.R /\ asset_store = last.pre.A /\ quota_store = last.pre.Q

WritingEcalls == {"set_storage", "service_write"}

\* C4: a call leaves the stores as they were before it, whatever program the
\* contract runs: every set_storage and service_write it issues is answered
\* with WriteInReadonlyContext, and a call whose ecall was refused reports an
\* error.
C4_CallLeavesStore ==
    last.op = "call" =>
        /\ StoresKept
        /\ \A i \in 1..Len(last.log) :
               last.payload.args.ecalls[i].kind \in WritingEcalls
                   => last.log[i] = "WriteInReadonlyContext"
        /\ (\E i \in 1..Len(last.log) : last.log[i] # Ok) => last.resp \notin {Ok}

\* C4 witness: a call whose program reads through the bridge and then tries
\* to write, on a contract whose storage a writeable run could set
C4_Witness ==
    /\ last.op = "call" /\ last.started
    /\ last.log = <<Ok, "WriteInReadonlyContext">>
    /\ last.resp = "CkbVm"
    /\ last.out_ctx.cycles_used > 0

RegistryOps ==
    {"approve_contract", "revoke_contract", "grant_deploy_auth", "revoke_deploy_auth"}

\* C6: approve_contract, revoke_contract, grant_deploy_auth and
\* revoke_deploy_auth change the registry only for a caller that is a service
\* admin; for any other caller they return NonAuthorized, charge no cycles and
\* leave every grant unchanged.
C6_AdminOnlyRegistry ==
    last.op \in RegistryOps =>
        /\ riscv_store.grants # last.pre.R.grants => is_admin(last.pre.R, last.ctx)
        /\ ~is_admin(last.pre.R, last.ctx) =>
               /\ last.resp = "NonAuthorized"
               /\ last.out_ctx.cycles_used = last.ctx.cycles_used
               /\ riscv_store = last.pre.R

\* C6 witness: a caller that is no admin tries to revoke a grant that exists
C6_Witness ==
    /\ last.op = "revoke_deploy_auth"
    /\ ~is_admin(last.pre.R, last.ctx)
    /\ granted(last.pre.R, 2, "Deploy")
    /\ granted(riscv_store, 2, "Deploy")
    /\ last.resp = "NonAuthorized"

=============================================================================
